---- MODULE Spec2Model ----
(***************************************************************************)
(* Model of the OrderCache repository.  Two implementations of the same    *)
(* six-operation interface are modelled side by side and driven by the     *)
(* same calls:                                                             *)
(*   cache  - OrderCache.cpp           (indices hold order ids)            *)
(*   pooled - AliMajidi/OrderCache.cpp (indices hold pointers into a pool) *)
(***************************************************************************)
EXTENDS Integers, Sequences, FiniteSets, TLC

VARIABLES
    cache,        \* the OrderCache object of OrderCache.cpp
    tls,          \* its static thread_local buyOrders and sellOrders
    pooled,       \* the OrderCache object of AliMajidi/OrderCache.cpp
    aliTls,       \* its static thread_local buyOrders and sellOrders
    last,         \* the name of the operation called most recently
    calls,        \* for each caller, the call it is in the middle of
    overlapped,   \* the caches on which two calls have been in progress at once
    begun         \* the number of calls begun by callers that may interleave

vars == <<cache, tls, pooled, aliTls, last, calls, overlapped, begun>>

\* Two threads of one program may call into a cache.  A call that is made
\* under the exclusion of the other caller runs from entry to return as one
\* step; the specification SpecRaces below makes calls without it.
Callers == {1, 2}

NoOrder == [orderId |-> "", securityId |-> "", side |-> <<>>, qty |-> 0, user |-> "",
            company |-> ""]

\* the caller is in no call
Returned == [op |-> "", order |-> NoOrder, pc |-> "", dangling |-> FALSE, orderPtrs |-> <<>>]

interleaving == <<calls, overlapped, begun>>

NoInterleaving ==
    /\ calls = [c \in Callers |-> Returned]
    /\ overlapped = {}
    /\ begun = 0

(***************************************************************************)
(* Bounds of the model                                                     *)
(***************************************************************************)
NumIds == 2        \* number of distinct non-empty order ids offered
MaxQty == 2        \* order quantities offered are 0..MaxQty
MaxPool == 2       \* cap on the number of records the pool ever allocates

\* unsigned int arithmetic is modulo 2^32.  TLC's integers stop short
\* of 2^32, so every quantity of the model counts lots of four units: min, +
\* and - commute with that scaling, and 2^32 units are 2^30 lots.
UIntWrap == 2^30

(***************************************************************************)
(* Strings.  The side is a sequence of characters because the code looks   *)
(* at its length and at its first character; the other fields are only     *)
(* tested for emptiness, compared for equality and (company) ordered.      *)
(***************************************************************************)
IdNames == <<"O1", "O2", "O3", "O4", "O5", "O6">>
OrderIds == {IdNames[i] : i \in 1..NumIds}
SecIds == {"SecA", "SecB"}
Users == {"U1", "U2"}
CompanyNames == <<"CoA", "CoB", "CoC">>
Companies == {CompanyNames[i] : i \in 1..Len(CompanyNames)}

Buy == <<"B", "u", "y">>
Sell == <<"S", "e", "l", "l">>
BadSides == {<<>>, <<"b", "u", "y">>, <<"B", "i", "d">>, <<"B", "u", "y", "s">>,
             <<"S", "o", "l", "d">>, <<"S", "e", "l">>, <<"A", "s", "k">>,
             <<"S", "e", "l", "l", "s">>}

\* std::string operator< on the company names used here
StrRank(s) == CHOOSE i \in 1..Len(CompanyNames) : CompanyNames[i] = s

Min(a, b) == IF a <= b THEN a ELSE b

\* std::unordered_map helpers
Put(f, k, v) == [x \in DOMAIN f \cup {k} |-> IF x = k THEN v ELSE f[x]]
Erase(f, k) == [x \in DOMAIN f \ {k} |-> f[x]]
EmptyMap == [x \in {} |-> 0]

\* std::remove + erase on a vector
Remove(seq, v) == SelectSeq(seq, LAMBDA x : x # v)

Range(seq) == {seq[i] : i \in 1..Len(seq)}

\* the orders in which an unordered container of distinct elements may be walked
Enumerations(s) == {f \in [1..Cardinality(s) -> s] : \A i, j \in 1..Cardinality(s) : f[i] = f[j] => i = j}

(***************************************************************************)
(* class Order                                                             *)
(***************************************************************************)
Order(ordId, secId, side, qty, user, company) ==
    [orderId |-> ordId, securityId |-> secId, side |-> side, qty |-> qty,
     user |-> user, company |-> company]

(***************************************************************************)
(* OrderCache.cpp                                                          *)
(***************************************************************************)
EmptyCache == [m_orders |-> EmptyMap, m_ordersByUser |-> EmptyMap, m_ordersBySecId |-> EmptyMap]

\* the three index insertions at the end of addOrder
Indexed(S, order) ==
    LET orderId == order.orderId
        user == order.user
        securityId == order.securityId
        userBucket == IF user \in DOMAIN S.m_ordersByUser THEN S.m_ordersByUser[user] ELSE {}
        secBucket == IF securityId \in DOMAIN S.m_ordersBySecId THEN S.m_ordersBySecId[securityId] ELSE <<>>
    IN  [m_orders |-> Put(S.m_orders, orderId, order),
         m_ordersByUser |-> Put(S.m_ordersByUser, user, userBucket \cup {orderId}),
         m_ordersBySecId |-> Put(S.m_ordersBySecId, securityId, Append(secBucket, orderId))]

\* addOrder that lets a valid order of a resident id replace the resident order
addOrder_Overwrites(S, order) ==
    IF order.orderId = "" \/ order.securityId = "" \/ order.user = "" \/ order.company = ""
       \/ order.qty = 0 \/ order.side \notin {Buy, Sell}
    THEN S
    ELSE IF order.orderId \in DOMAIN S.m_orders
         THEN [S EXCEPT !.m_orders[order.orderId] = order]
         ELSE Indexed(S, order)

\* addOrder that judges the side by its length and first letter only
addOrder_FirstLetterOnly(S, order) ==
    IF order.orderId = "" \/ order.orderId \in DOMAIN S.m_orders THEN S
    ELSE IF order.securityId = "" \/ order.side = <<>> \/ order.user = ""
            \/ order.company = "" \/ order.qty = 0
         THEN S
    ELSE IF Len(order.side) < 3 \/ Len(order.side) > 4 THEN S
    ELSE IF order.side[1] \notin {"B", "S"} THEN S
    ELSE Indexed(S, order)

\* addOrder without the erase that follows a failed validation
addOrder_LeavesRejected(S, order) ==
    LET orderId == order.orderId
        inserted == [S EXCEPT !.m_orders = Put(@, orderId, order)]
        side == order.side
    IN  IF orderId = "" THEN S
        ELSE IF orderId \in DOMAIN S.m_orders THEN S
        ELSE IF order.securityId = "" \/ side = <<>> \/ order.user = "" \/ order.company = ""
                \/ order.qty = 0
             THEN inserted
        ELSE IF side \notin {Buy, Sell} THEN inserted
        ELSE Indexed(S, order)

addOrder(S, order) ==
    LET orderId == order.orderId
        inserted == [S EXCEPT !.m_orders = Put(@, orderId, order)]
        erased == [inserted EXCEPT !.m_orders = Erase(@, orderId)]
        side == order.side
        indexed == Indexed(S, order)
    IN  IF orderId = "" THEN S
        ELSE IF orderId \in DOMAIN S.m_orders THEN S
        ELSE IF order.securityId = "" \/ side = <<>> \/ order.user = "" \/ order.company = ""
                \/ order.qty = 0
             THEN erased
        ELSE IF Len(side) < 3 \/ Len(side) > 4 THEN erased
        ELSE IF side[1] = "B" THEN (IF side # Buy THEN erased ELSE indexed)
        ELSE IF side[1] = "S" THEN (IF side # Sell THEN erased ELSE indexed)
        ELSE erased

\* cancelOrder that leaves the id in its security bucket
cancelOrder_KeepsSecEntry(S, orderId) ==
    IF orderId \notin DOMAIN S.m_orders THEN S
    ELSE LET user == S.m_orders[orderId].user
             ids == S.m_ordersByUser[user] \ {orderId}
         IN  [S EXCEPT !.m_orders = Erase(@, orderId),
                       !.m_ordersByUser = IF ids = {} THEN Erase(@, user)
                                          ELSE [@ EXCEPT ![user] = ids]]

cancelOrder(S, orderId) ==
    IF orderId \notin DOMAIN S.m_orders THEN S
    ELSE LET order == S.m_orders[orderId]
             user == order.user
             securityId == order.securityId
             byUser == IF user \in DOMAIN S.m_ordersByUser
                       THEN LET ids == S.m_ordersByUser[user] \ {orderId}
                            IN  IF ids = {} THEN Erase(S.m_ordersByUser, user)
                                ELSE [S.m_ordersByUser EXCEPT ![user] = ids]
                       ELSE S.m_ordersByUser
             bySecId == IF securityId \in DOMAIN S.m_ordersBySecId
                        THEN LET orderIds == Remove(S.m_ordersBySecId[securityId], orderId)
                             IN  IF orderIds = <<>> THEN Erase(S.m_ordersBySecId, securityId)
                                 ELSE [S.m_ordersBySecId EXCEPT ![securityId] = orderIds]
                        ELSE S.m_ordersBySecId
         IN  [m_orders |-> Erase(S.m_orders, orderId), m_ordersByUser |-> byUser,
              m_ordersBySecId |-> bySecId]

\* for (orderId : orderIds) cancelOrder(orderId);
RECURSIVE CancelEach(_, _)
CancelEach(S, orderIds) ==
    IF orderIds = <<>> THEN S
    ELSE CancelEach(cancelOrder(S, Head(orderIds)), Tail(orderIds))

\* a loop that ends after its first round
cancelOrdersForUser_FirstOnly(S, user, orderIds) ==
    IF user \notin DOMAIN S.m_ordersByUser THEN S
    ELSE CancelEach(S, SubSeq(orderIds, 1, 1))

\* orderIds is the copy of the user's unordered_set, in the order the set is walked
cancelOrdersForUser(S, user, orderIds) ==
    IF user \notin DOMAIN S.m_ordersByUser THEN S
    ELSE CancelEach(S, orderIds)

\* the first loop of cancelOrdersForSecIdWithMinimumQty: the ids of the
\* bucket whose order has minQty or more, collected before any is cancelled
CollectIdsToCancel(S, securityId, minQty) ==
    IF securityId = "" \/ minQty = 0 \/ securityId \notin DOMAIN S.m_ordersBySecId THEN <<>>
    ELSE SelectSeq(S.m_ordersBySecId[securityId],
                   LAMBDA orderId : orderId \in DOMAIN S.m_orders
                                    /\ S.m_orders[orderId].qty >= minQty)

\* one loop that cancels while it walks the bucket by index
RECURSIVE ScanAndCancel(_, _, _, _)
ScanAndCancel(S, securityId, minQty, i) ==
    IF securityId \notin DOMAIN S.m_ordersBySecId THEN S
    ELSE IF i > Len(S.m_ordersBySecId[securityId]) THEN S
    ELSE LET orderId == S.m_ordersBySecId[securityId][i]
         IN  IF S.m_orders[orderId].qty >= minQty
             THEN ScanAndCancel(cancelOrder(S, orderId), securityId, minQty, i + 1)
             ELSE ScanAndCancel(S, securityId, minQty, i + 1)

\* the body with the two loops made one
cancelOrdersForSecIdWithMinimumQty_OneLoop(S, securityId, minQty) ==
    IF securityId = "" \/ minQty = 0 THEN S
    ELSE ScanAndCancel(S, securityId, minQty, 1)

\* the body that takes the orders to cancel from m_orders, of any security
cancelOrdersForSecIdWithMinimumQty_AnySecurity(S, securityId, minQty) ==
    IF securityId = "" \/ minQty = 0 THEN S
    ELSE IF securityId \notin DOMAIN S.m_ordersBySecId THEN S
    ELSE LET large == {orderId \in DOMAIN S.m_orders : S.m_orders[orderId].qty >= minQty}
             orderIdsToCancel == CHOOSE ids \in Enumerations(large) : TRUE
         IN  CancelEach(S, orderIdsToCancel)

\* the body without the early return for minQty = 0
cancelOrdersForSecIdWithMinimumQty_NoZeroTest(S, securityId, minQty) ==
    IF securityId = "" THEN S
    ELSE IF securityId \notin DOMAIN S.m_ordersBySecId THEN S
    ELSE LET orderIdsToCancel ==
                 SelectSeq(S.m_ordersBySecId[securityId],
                           LAMBDA orderId : orderId \in DOMAIN S.m_orders
                                            /\ S.m_orders[orderId].qty >= minQty)
         IN  CancelEach(S, orderIdsToCancel)

cancelOrdersForSecIdWithMinimumQty(S, securityId, minQty) ==
    IF securityId = "" \/ minQty = 0 THEN S
    ELSE IF securityId \notin DOMAIN S.m_ordersBySecId THEN S
    ELSE LET orderIdsToCancel ==
                 SelectSeq(S.m_ordersBySecId[securityId],
                           LAMBDA orderId : orderId \in DOMAIN S.m_orders
                                            /\ S.m_orders[orderId].qty >= minQty)
         IN  CancelEach(S, orderIdsToCancel)

\* ids is the order in which the unordered_map m_orders is walked
getAllOrders(S, ids) == [i \in 1..Len(ids) |-> S.m_orders[ids[i]]]

\* operator< of std::pair: by first, then by second; rank[x] orders the second
\* components (string order for company names, address order for pointers)
PairLess(a, b, rank) ==
    a.first < b.first \/ (a.first = b.first /\ rank[a.second] < rank[b.second])

\* std::sort(v.rbegin(), v.rend()): v ends up in descending order of PairLess
RECURSIVE InsertDesc(_, _, _)
InsertDesc(sorted, x, rank) ==
    IF sorted = <<>> THEN <<x>>
    ELSE IF PairLess(Head(sorted), x, rank) THEN <<x>> \o sorted
    ELSE <<Head(sorted)>> \o InsertDesc(Tail(sorted), x, rank)

RECURSIVE SortDesc(_, _)
SortDesc(v, rank) ==
    IF v = <<>> THEN <<>>
    ELSE InsertDesc(SortDesc(Tail(v), rank), Head(v), rank)

\* std::string operator< as a rank of the company names
CompanyRank == [c \in Companies |-> StrRank(c)]

\* the inner loop with the statement sellOrder.first -= matchQty left out
RECURSIVE ScanSells_KeepsSell(_, _, _, _, _, _)
ScanSells_KeepsSell(i, buyOrder, sellOrders, j, totalMatched, matches) ==
    IF j > Len(sellOrders)
    THEN [buyOrder |-> buyOrder, sellOrders |-> sellOrders, totalMatched |-> totalMatched,
          matches |-> matches]
    ELSE LET sellOrder == sellOrders[j]
         IN  IF sellOrder.first = 0 \/ buyOrder.second = sellOrder.second
             THEN ScanSells_KeepsSell(i, buyOrder, sellOrders, j + 1, totalMatched, matches)
             ELSE LET matchQty == Min(buyOrder.first, sellOrder.first)
                      total == (totalMatched + matchQty) % UIntWrap
                      buy == [buyOrder EXCEPT !.first = @ - matchQty]
                      done == Append(matches, [buy |-> i, sell |-> j, matchQty |-> matchQty])
                  IN  IF buy.first = 0
                      THEN [buyOrder |-> buy, sellOrders |-> sellOrders,
                            totalMatched |-> total, matches |-> done]
                      ELSE ScanSells_KeepsSell(i, buy, sellOrders, j + 1, total, done)

\* the inner loop leaving at the first match, whatever is left of the buy
RECURSIVE ScanSells_LeavesAtFirstMatch(_, _, _, _, _, _)
ScanSells_LeavesAtFirstMatch(i, buyOrder, sellOrders, j, totalMatched, matches) ==
    IF j > Len(sellOrders)
    THEN [buyOrder |-> buyOrder, sellOrders |-> sellOrders, totalMatched |-> totalMatched,
          matches |-> matches]
    ELSE LET sellOrder == sellOrders[j]
         IN  IF sellOrder.first = 0 \/ buyOrder.second = sellOrder.second
             THEN ScanSells_LeavesAtFirstMatch(i, buyOrder, sellOrders, j + 1, totalMatched,
                                               matches)
             ELSE LET matchQty == Min(buyOrder.first, sellOrder.first)
                  IN  [buyOrder |-> [buyOrder EXCEPT !.first = @ - matchQty],
                       sellOrders |-> [sellOrders EXCEPT ![j].first = @ - matchQty],
                       totalMatched |-> (totalMatched + matchQty) % UIntWrap,
                       matches |-> Append(matches, [buy |-> i, sell |-> j,
                                                    matchQty |-> matchQty])]

\* the inner loop over sellOrders for buyOrders[i], from index j on; matches
\* lists the executions of the matching statements: which pair, how much
RECURSIVE ScanSells(_, _, _, _, _, _)
ScanSells(i, buyOrder, sellOrders, j, totalMatched, matches) ==
    IF j > Len(sellOrders)
    THEN [buyOrder |-> buyOrder, sellOrders |-> sellOrders, totalMatched |-> totalMatched,
          matches |-> matches]
    ELSE LET sellOrder == sellOrders[j]
         IN  IF sellOrder.first = 0
             THEN ScanSells(i, buyOrder, sellOrders, j + 1, totalMatched, matches)
             ELSE IF buyOrder.second = sellOrder.second
                  THEN ScanSells(i, buyOrder, sellOrders, j + 1, totalMatched, matches)
             ELSE LET matchQty == Min(buyOrder.first, sellOrder.first)
                      total == (totalMatched + matchQty) % UIntWrap
                      buy == [buyOrder EXCEPT !.first = @ - matchQty]
                      sells == [sellOrders EXCEPT ![j].first = @ - matchQty]
                      done == Append(matches, [buy |-> i, sell |-> j, matchQty |-> matchQty])
                  IN  IF buy.first = 0
                      THEN [buyOrder |-> buy, sellOrders |-> sells, totalMatched |-> total,
                            matches |-> done]
                      ELSE ScanSells(i, buy, sells, j + 1, total, done)

\* the outer loop over buyOrders, from index i on
RECURSIVE ScanBuys(_, _, _, _, _)
ScanBuys(buyOrders, sellOrders, i, totalMatched, matches) ==
    IF i > Len(buyOrders)
    THEN [buyOrders |-> buyOrders, sellOrders |-> sellOrders, totalMatched |-> totalMatched,
          matches |-> matches]
    ELSE IF buyOrders[i].first = 0
         THEN ScanBuys(buyOrders, sellOrders, i + 1, totalMatched, matches)
    ELSE LET r == ScanSells(i, buyOrders[i], sellOrders, 1, totalMatched, matches)
         IN  ScanBuys([buyOrders EXCEPT ![i] = r.buyOrder], r.sellOrders, i + 1,
                      r.totalMatched, r.matches)

\* the collection loop walking every resident order, not the bucket
CollectSide_EveryOrder(S, orderIds, side) ==
    LET all == CHOOSE ids \in Enumerations(DOMAIN S.m_orders) : TRUE
        kept == SelectSeq(all, LAMBDA orderId : S.m_orders[orderId].side = side)
    IN  [k \in 1..Len(kept) |-> [first |-> S.m_orders[kept[k]].qty,
                                 second |-> S.m_orders[kept[k]].company]]

\* the (quantity, company) pairs of the bucket's orders whose side is `side`
CollectSide(S, orderIds, side) ==
    LET kept == SelectSeq(orderIds, LAMBDA orderId : orderId \in DOMAIN S.m_orders
                                                     /\ S.m_orders[orderId].side = side)
    IN  [k \in 1..Len(kept) |-> [first |-> S.m_orders[kept[k]].qty,
                                 second |-> S.m_orders[kept[k]].company]]

\* the static thread_local vectors buyOrders and sellOrders before the first call
EmptyScratch == [buyOrders |-> <<>>, sellOrders |-> <<>>]

\* the body without the two calls of clear()
MatchingRun_NoClear(S, scratch, securityId) ==
    LET orderIds == S.m_ordersBySecId[securityId]
        buyOrders == scratch.buyOrders \o CollectSide(S, orderIds, Buy)
        sellOrders == scratch.sellOrders \o CollectSide(S, orderIds, Sell)
        sortedBuys == SortDesc(buyOrders, CompanyRank)
        sortedSells == SortDesc(sellOrders, CompanyRank)
    IN  IF buyOrders = <<>> \/ sellOrders = <<>>
        THEN [sortedBuys |-> buyOrders, sortedSells |-> sellOrders,
              buyOrders |-> buyOrders, sellOrders |-> sellOrders,
              totalMatched |-> 0, matches |-> <<>>]
        ELSE [sortedBuys |-> sortedBuys, sortedSells |-> sortedSells]
             @@ ScanBuys(sortedBuys, sortedSells, 1, 0, <<>>)

\* the body without the two calls of std::sort
MatchingRun_Unsorted(S, scratch, securityId) ==
    LET orderIds == S.m_ordersBySecId[securityId]
        buyOrders == CollectSide(S, orderIds, Buy)
        sellOrders == CollectSide(S, orderIds, Sell)
    IN  IF buyOrders = <<>> \/ sellOrders = <<>>
        THEN [sortedBuys |-> buyOrders, sortedSells |-> sellOrders,
              buyOrders |-> buyOrders, sellOrders |-> sellOrders,
              totalMatched |-> 0, matches |-> <<>>]
        ELSE [sortedBuys |-> buyOrders, sortedSells |-> sellOrders]
             @@ ScanBuys(buyOrders, sellOrders, 1, 0, <<>>)

\* the body of getMatchingSizeForSecurity once the security's bucket is found:
\* the vectors as sorted, and the vectors, the accumulator and the matches made
\* as they are when the function returns
MatchingRun(S, scratch, securityId) ==
    LET cleared == [scratch EXCEPT !.buyOrders = <<>>, !.sellOrders = <<>>]
        orderIds == S.m_ordersBySecId[securityId]
        buyOrders == cleared.buyOrders \o CollectSide(S, orderIds, Buy)
        sellOrders == cleared.sellOrders \o CollectSide(S, orderIds, Sell)
        sortedBuys == SortDesc(buyOrders, CompanyRank)
        sortedSells == SortDesc(sellOrders, CompanyRank)
    IN  IF buyOrders = <<>> \/ sellOrders = <<>>
        THEN [sortedBuys |-> buyOrders, sortedSells |-> sellOrders,
              buyOrders |-> buyOrders, sellOrders |-> sellOrders,
              totalMatched |-> 0, matches |-> <<>>]
        ELSE [sortedBuys |-> sortedBuys, sortedSells |-> sortedSells]
             @@ ScanBuys(sortedBuys, sortedSells, 1, 0, <<>>)

\* ret is the value returned, scratch the static vectors left behind
getMatchingSizeForSecurity(S, scratch, securityId) ==
    IF securityId = "" THEN [ret |-> 0, scratch |-> scratch]
    ELSE IF securityId \notin DOMAIN S.m_ordersBySecId THEN [ret |-> 0, scratch |-> scratch]
    ELSE LET r == MatchingRun(S, scratch, securityId)
         IN  [ret |-> r.totalMatched,
              scratch |-> [buyOrders |-> r.buyOrders, sellOrders |-> r.sellOrders]]

(***************************************************************************)
(* AliMajidi/OrderCache.cpp with the OrderCache class of OrderCache.h      *)
(* Pointers are addresses 1..MaxPool; m_pool maps every address the pool   *)
(* has handed out to the InternalOrder that lives there.                   *)
(***************************************************************************)
Addrs == 1..MaxPool
NullPtr == 0

InternalOrder(order) ==
    [orderId |-> order.orderId, securityId |-> order.securityId, side |-> order.side,
     qty |-> order.qty, user |-> order.user, company |-> order.company,
     isBuy |-> (order.side = Buy)]

\* toOrder with user and company in each other's place
toOrder_UserForCompany(io) ==
    Order(io.orderId, io.securityId, io.side, io.qty, io.company, io.user)

toOrder(io) == Order(io.orderId, io.securityId, io.side, io.qty, io.user, io.company)

EmptyPooled ==
    [m_pool |-> EmptyMap, m_orders |-> EmptyMap, m_ordersByUser |-> EmptyMap,
     m_ordersBySecId |-> EmptyMap]

\* the early returns of addOrder, the test for a duplicate id looking through
\* the records of the pool
Ali_Rejects_AnyPoolRecord(P, order) ==
    \/ order.orderId = "" \/ order.securityId = "" \/ order.user = "" \/ order.company = ""
    \/ order.qty = 0
    \/ order.side \notin {Buy, Sell}
    \/ \E ptr \in DOMAIN P.m_pool : P.m_pool[ptr].orderId = order.orderId

\* the early returns of addOrder without the test for a resident id
Ali_Rejects_NoDuplicateTest(P, order) ==
    \/ order.orderId = "" \/ order.securityId = "" \/ order.user = "" \/ order.company = ""
    \/ order.qty = 0
    \/ order.side \notin {Buy, Sell}

\* the early returns of addOrder without the test of the quantity
Ali_Rejects_NoQtyTest(P, order) ==
    \/ order.orderId = "" \/ order.securityId = "" \/ order.user = "" \/ order.company = ""
    \/ order.side \notin {Buy, Sell}
    \/ order.orderId \in DOMAIN P.m_orders

\* the early returns of addOrder, before anything is acquired from the pool
Ali_Rejects(P, order) ==
    LET side == order.side
        sideLen == Len(side)
        isBuyCandidate == sideLen = 3 /\ side[1] = "B"
        isSellCandidate == sideLen = 4 /\ side[1] = "S"
    IN  \/ order.orderId = "" \/ order.securityId = "" \/ order.user = ""
        \/ order.company = "" \/ order.qty = 0
        \/ (sideLen # 3 /\ sideLen # 4)
        \/ IF isBuyCandidate THEN side # Buy
           ELSE IF isSellCandidate THEN side # Sell
           ELSE TRUE
        \/ order.orderId \in DOMAIN P.m_orders

\* ptr is the address std::make_unique returns in OrderPool::acquire
acquire(P, order, ptr) == [P EXCEPT !.m_pool = Put(@, ptr, InternalOrder(order))]

\* OrderPool::release does nothing
release(P, ptr) == P

\* addOrder that starts the security bucket anew with every order
Ali_addOrder_FreshSecBucket(P, order, ptr) ==
    IF order.orderId = "" \/ order.securityId = "" \/ order.user = "" \/ order.company = ""
       \/ order.qty = 0 \/ order.side \notin {Buy, Sell} \/ order.orderId \in DOMAIN P.m_orders
    THEN P
    ELSE LET user == order.user
             userBucket == IF user \in DOMAIN P.m_ordersByUser THEN P.m_ordersByUser[user] ELSE <<>>
         IN  [m_pool |-> Put(P.m_pool, ptr, InternalOrder(order)),
              m_orders |-> Put(P.m_orders, order.orderId, ptr),
              m_ordersByUser |-> Put(P.m_ordersByUser, user, Append(userBucket, ptr)),
              m_ordersBySecId |-> Put(P.m_ordersBySecId, order.securityId, <<ptr>>)]

Ali_addOrder(P, order, ptr) ==
    IF Ali_Rejects(P, order) THEN P
    ELSE LET acquired == acquire(P, order, ptr)
             user == order.user
             securityId == order.securityId
             userBucket == IF user \in DOMAIN P.m_ordersByUser THEN P.m_ordersByUser[user] ELSE <<>>
             secBucket == IF securityId \in DOMAIN P.m_ordersBySecId THEN P.m_ordersBySecId[securityId] ELSE <<>>
         IN  [acquired EXCEPT !.m_orders = Put(@, order.orderId, ptr),
                              !.m_ordersByUser = Put(@, user, Append(userBucket, ptr)),
                              !.m_ordersBySecId = Put(@, securityId, Append(secBucket, ptr))]

\* the removal that keeps the key of a bucket it has emptied
Ali_RemoveFromSecId_KeepsKey(P, orderPtr) ==
    LET securityId == P.m_pool[orderPtr].securityId
    IN  IF securityId \in DOMAIN P.m_ordersBySecId
        THEN [P.m_ordersBySecId EXCEPT ![securityId] = Remove(@, orderPtr)]
        ELSE P.m_ordersBySecId

\* the removal of orderPtr from its security bucket, dropping an emptied bucket
Ali_RemoveFromSecId(P, orderPtr) ==
    LET securityId == P.m_pool[orderPtr].securityId
    IN  IF securityId \in DOMAIN P.m_ordersBySecId
        THEN LET secOrders == Remove(P.m_ordersBySecId[securityId], orderPtr)
             IN  IF secOrders = <<>> THEN Erase(P.m_ordersBySecId, securityId)
                 ELSE [P.m_ordersBySecId EXCEPT ![securityId] = secOrders]
        ELSE P.m_ordersBySecId

\* cancelOrder that leaves the pointer in its user bucket
Ali_cancelOrder_KeepsUserEntry(P, orderId) ==
    IF orderId \notin DOMAIN P.m_orders THEN P
    ELSE LET orderPtr == P.m_orders[orderId]
         IN  [P EXCEPT !.m_orders = Erase(@, orderId),
                       !.m_ordersBySecId = Ali_RemoveFromSecId(P, orderPtr)]

Ali_cancelOrder(P, orderId) ==
    IF orderId \notin DOMAIN P.m_orders THEN P
    ELSE LET orderPtr == P.m_orders[orderId]
             user == P.m_pool[orderPtr].user
             byUser == IF user \in DOMAIN P.m_ordersByUser
                       THEN LET userOrders == Remove(P.m_ordersByUser[user], orderPtr)
                            IN  IF userOrders = <<>> THEN Erase(P.m_ordersByUser, user)
                                ELSE [P.m_ordersByUser EXCEPT ![user] = userOrders]
                       ELSE P.m_ordersByUser
             bySecId == Ali_RemoveFromSecId(P, orderPtr)
         IN  [release(P, orderPtr) EXCEPT !.m_orders = Erase(@, orderId),
                                          !.m_ordersByUser = byUser,
                                          !.m_ordersBySecId = bySecId]

\* the loop of cancelOrdersForUser over the copied pointers
RECURSIVE Ali_RemoveEach(_, _)
Ali_RemoveEach(P, orderPtrs) ==
    IF orderPtrs = <<>> THEN P
    ELSE LET orderPtr == Head(orderPtrs)
             step == [release(P, orderPtr) EXCEPT
                         !.m_ordersBySecId = Ali_RemoveFromSecId(P, orderPtr),
                         !.m_orders = Erase(@, P.m_pool[orderPtr].orderId)]
         IN  Ali_RemoveEach(step, Tail(orderPtrs))

\* cancelOrdersForUser that empties the bucket of the user and keeps its key
Ali_cancelOrdersForUser_KeepsKey(P, user) ==
    IF user \notin DOMAIN P.m_ordersByUser THEN P
    ELSE LET orderPtrs == P.m_ordersByUser[user]
         IN  Ali_RemoveEach([P EXCEPT !.m_ordersByUser[user] = <<>>], orderPtrs)

Ali_cancelOrdersForUser(P, user) ==
    IF user \notin DOMAIN P.m_ordersByUser THEN P
    ELSE LET orderPtrs == P.m_ordersByUser[user]
         IN  Ali_RemoveEach([P EXCEPT !.m_ordersByUser = Erase(@, user)], orderPtrs)

\* for (orderPtr : orderPtrsToCancel) cancelOrder(orderPtr->orderId);
RECURSIVE Ali_CancelEach(_, _)
Ali_CancelEach(P, orderPtrs) ==
    IF orderPtrs = <<>> THEN P
    ELSE Ali_CancelEach(Ali_cancelOrder(P, P.m_pool[Head(orderPtrs)].orderId), Tail(orderPtrs))

\* the first loop of cancelOrdersForSecIdWithMinimumQty: the pointers of the
\* bucket whose order has minQty or more, collected before any is cancelled
Ali_CollectPtrsToCancel(P, securityId, minQty) ==
    IF securityId = "" \/ minQty = 0 \/ securityId \notin DOMAIN P.m_ordersBySecId THEN <<>>
    ELSE SelectSeq(P.m_ordersBySecId[securityId],
                   LAMBDA orderPtr : P.m_pool[orderPtr].qty >= minQty)

\* the quantity test with > for >=
Ali_cancelOrdersForSecIdWithMinimumQty_Strict(P, securityId, minQty) ==
    IF securityId = "" \/ minQty = 0 THEN P
    ELSE IF securityId \notin DOMAIN P.m_ordersBySecId THEN P
    ELSE LET orderPtrsToCancel ==
                 SelectSeq(P.m_ordersBySecId[securityId],
                           LAMBDA orderPtr : P.m_pool[orderPtr].qty > minQty)
         IN  Ali_CancelEach(P, orderPtrsToCancel)

Ali_cancelOrdersForSecIdWithMinimumQty(P, securityId, minQty) ==
    IF securityId = "" \/ minQty = 0 THEN P
    ELSE IF securityId \notin DOMAIN P.m_ordersBySecId THEN P
    ELSE LET orderPtrsToCancel ==
                 SelectSeq(P.m_ordersBySecId[securityId],
                           LAMBDA orderPtr : P.m_pool[orderPtr].qty >= minQty)
         IN  Ali_CancelEach(P, orderPtrsToCancel)

\* ids is the order in which the unordered_map m_orders is walked
Ali_getAllOrders(P, ids) == [i \in 1..Len(ids) |-> toOrder(P.m_pool[P.m_orders[ids[i]]])]

\* operator< on pointers: the order of the addresses
AddrRank(P) == [a \in DOMAIN P.m_pool |-> a]

\* the inner loop taking the larger of the two quantities as matchQty
RECURSIVE Ali_ScanSells_TakesLarger(_, _, _, _, _, _, _)
Ali_ScanSells_TakesLarger(P, i, buyOrder, sellOrders, j, totalMatched, matches) ==
    IF j > Len(sellOrders)
    THEN [buyOrder |-> buyOrder, sellOrders |-> sellOrders, totalMatched |-> totalMatched,
          matches |-> matches]
    ELSE LET sellOrder == sellOrders[j]
         IN  IF sellOrder.first = 0 \/ buyOrder.second = sellOrder.second
                \/ P.m_pool[buyOrder.second].company = P.m_pool[sellOrder.second].company
             THEN Ali_ScanSells_TakesLarger(P, i, buyOrder, sellOrders, j + 1, totalMatched,
                                            matches)
             ELSE LET buyQty == buyOrder.first
                      sellQty == sellOrder.first
                      matchQty == IF buyQty <= sellQty THEN sellQty ELSE buyQty
                      total == (totalMatched + matchQty) % UIntWrap
                      buy == [buyOrder EXCEPT !.first = buyQty - matchQty]
                      sells == [sellOrders EXCEPT ![j].first = sellQty - matchQty]
                      done == Append(matches, [buy |-> i, sell |-> j, matchQty |-> matchQty])
                  IN  IF buy.first = 0
                      THEN [buyOrder |-> buy, sellOrders |-> sells, totalMatched |-> total,
                            matches |-> done]
                      ELSE Ali_ScanSells_TakesLarger(P, i, buy, sells, j + 1, total, done)

\* the inner loop comparing the company pointers only, not the strings
RECURSIVE Ali_ScanSells_PointersOnly(_, _, _, _, _, _, _)
Ali_ScanSells_PointersOnly(P, i, buyOrder, sellOrders, j, totalMatched, matches) ==
    IF j > Len(sellOrders)
    THEN [buyOrder |-> buyOrder, sellOrders |-> sellOrders, totalMatched |-> totalMatched,
          matches |-> matches]
    ELSE LET sellOrder == sellOrders[j]
         IN  IF sellOrder.first = 0 \/ buyOrder.second = sellOrder.second
             THEN Ali_ScanSells_PointersOnly(P, i, buyOrder, sellOrders, j + 1, totalMatched,
                                             matches)
             ELSE LET matchQty == Min(buyOrder.first, sellOrder.first)
                      total == (totalMatched + matchQty) % UIntWrap
                      buy == [buyOrder EXCEPT !.first = @ - matchQty]
                      sells == [sellOrders EXCEPT ![j].first = @ - matchQty]
                      done == Append(matches, [buy |-> i, sell |-> j, matchQty |-> matchQty])
                  IN  IF buy.first = 0
                      THEN [buyOrder |-> buy, sellOrders |-> sells, totalMatched |-> total,
                            matches |-> done]
                      ELSE Ali_ScanSells_PointersOnly(P, i, buy, sells, j + 1, total, done)

\* the inner loop over sellOrders for buyOrders[i]; second points to the company
RECURSIVE Ali_ScanSells(_, _, _, _, _, _, _)
Ali_ScanSells(P, i, buyOrder, sellOrders, j, totalMatched, matches) ==
    IF j > Len(sellOrders)
    THEN [buyOrder |-> buyOrder, sellOrders |-> sellOrders, totalMatched |-> totalMatched,
          matches |-> matches]
    ELSE LET sellOrder == sellOrders[j]
         IN  IF sellOrder.first = 0
             THEN Ali_ScanSells(P, i, buyOrder, sellOrders, j + 1, totalMatched, matches)
             ELSE IF buyOrder.second = sellOrder.second
                  THEN Ali_ScanSells(P, i, buyOrder, sellOrders, j + 1, totalMatched, matches)
             ELSE IF P.m_pool[buyOrder.second].company = P.m_pool[sellOrder.second].company
                  THEN Ali_ScanSells(P, i, buyOrder, sellOrders, j + 1, totalMatched, matches)
             ELSE LET buyQty == buyOrder.first
                      sellQty == sellOrder.first
                      matchQty == IF buyQty <= sellQty THEN buyQty ELSE sellQty
                      total == (totalMatched + matchQty) % UIntWrap
                      buy == [buyOrder EXCEPT !.first = buyQty - matchQty]
                      sells == [sellOrders EXCEPT ![j].first = sellQty - matchQty]
                      done == Append(matches, [buy |-> i, sell |-> j, matchQty |-> matchQty])
                  IN  IF buy.first = 0
                      THEN [buyOrder |-> buy, sellOrders |-> sells, totalMatched |-> total,
                            matches |-> done]
                      ELSE Ali_ScanSells(P, i, buy, sells, j + 1, total, done)

\* the outer loop ending at the first buy that is not filled
RECURSIVE Ali_ScanBuys_EndsAtUnfilled(_, _, _, _, _, _)
Ali_ScanBuys_EndsAtUnfilled(P, buyOrders, sellOrders, i, totalMatched, matches) ==
    IF i > Len(buyOrders)
    THEN [buyOrders |-> buyOrders, sellOrders |-> sellOrders, totalMatched |-> totalMatched,
          matches |-> matches]
    ELSE IF buyOrders[i].first = 0
         THEN Ali_ScanBuys_EndsAtUnfilled(P, buyOrders, sellOrders, i + 1, totalMatched,
                                          matches)
    ELSE LET r == Ali_ScanSells(P, i, buyOrders[i], sellOrders, 1, totalMatched, matches)
             buys == [buyOrders EXCEPT ![i] = r.buyOrder]
         IN  IF r.buyOrder.first > 0
             THEN [buyOrders |-> buys, sellOrders |-> r.sellOrders,
                   totalMatched |-> r.totalMatched, matches |-> r.matches]
             ELSE Ali_ScanBuys_EndsAtUnfilled(P, buys, r.sellOrders, i + 1, r.totalMatched,
                                              r.matches)

RECURSIVE Ali_ScanBuys(_, _, _, _, _, _)
Ali_ScanBuys(P, buyOrders, sellOrders, i, totalMatched, matches) ==
    IF i > Len(buyOrders)
    THEN [buyOrders |-> buyOrders, sellOrders |-> sellOrders, totalMatched |-> totalMatched,
          matches |-> matches]
    ELSE IF buyOrders[i].first = 0
         THEN Ali_ScanBuys(P, buyOrders, sellOrders, i + 1, totalMatched, matches)
    ELSE LET r == Ali_ScanSells(P, i, buyOrders[i], sellOrders, 1, totalMatched, matches)
         IN  Ali_ScanBuys(P, [buyOrders EXCEPT ![i] = r.buyOrder], r.sellOrders, i + 1,
                          r.totalMatched, r.matches)

\* the (quantity, pointer) pairs of the bucket's orders with the given isBuy flag
Ali_CollectSide(P, orders, isBuy) ==
    LET kept == SelectSeq(orders, LAMBDA orderPtr : P.m_pool[orderPtr].isBuy = isBuy)
    IN  [k \in 1..Len(kept) |-> [first |-> P.m_pool[kept[k]].qty, second |-> kept[k]]]

\* the body without the two calls of clear()
Ali_MatchingRun_NoClear(P, scratch, securityId) ==
    LET orders == P.m_ordersBySecId[securityId]
        buyOrders == scratch.buyOrders \o Ali_CollectSide(P, orders, TRUE)
        sellOrders == scratch.sellOrders \o Ali_CollectSide(P, orders, FALSE)
        sortedBuys == SortDesc(buyOrders, AddrRank(P))
        sortedSells == SortDesc(sellOrders, AddrRank(P))
    IN  IF buyOrders = <<>> \/ sellOrders = <<>>
        THEN [sortedBuys |-> buyOrders, sortedSells |-> sellOrders,
              buyOrders |-> buyOrders, sellOrders |-> sellOrders,
              totalMatched |-> 0, matches |-> <<>>]
        ELSE [sortedBuys |-> sortedBuys, sortedSells |-> sortedSells]
             @@ Ali_ScanBuys(P, sortedBuys, sortedSells, 1, 0, <<>>)

Ali_MatchingRun(P, scratch, securityId) ==
    LET cleared == [scratch EXCEPT !.buyOrders = <<>>, !.sellOrders = <<>>]
        orders == P.m_ordersBySecId[securityId]
        buyOrders == cleared.buyOrders \o Ali_CollectSide(P, orders, TRUE)
        sellOrders == cleared.sellOrders \o Ali_CollectSide(P, orders, FALSE)
        sortedBuys == SortDesc(buyOrders, AddrRank(P))
        sortedSells == SortDesc(sellOrders, AddrRank(P))
    IN  IF buyOrders = <<>> \/ sellOrders = <<>>
        THEN [sortedBuys |-> buyOrders, sortedSells |-> sellOrders,
              buyOrders |-> buyOrders, sellOrders |-> sellOrders,
              totalMatched |-> 0, matches |-> <<>>]
        ELSE [sortedBuys |-> sortedBuys, sortedSells |-> sortedSells]
             @@ Ali_ScanBuys(P, sortedBuys, sortedSells, 1, 0, <<>>)

Ali_getMatchingSizeForSecurity(P, scratch, securityId) ==
    IF securityId = "" THEN [ret |-> 0, scratch |-> scratch]
    ELSE IF securityId \notin DOMAIN P.m_ordersBySecId THEN [ret |-> 0, scratch |-> scratch]
    ELSE IF Len(P.m_ordersBySecId[securityId]) < 2 THEN [ret |-> 0, scratch |-> scratch]
    ELSE LET r == Ali_MatchingRun(P, scratch, securityId)
         IN  [ret |-> r.totalMatched,
              scratch |-> [buyOrders |-> r.buyOrders, sellOrders |-> r.sellOrders]]

(***************************************************************************)
(* The calls offered to the two caches                                     *)
(***************************************************************************)
Sides == <<Buy, Sell>>

\* Each user trades for one company, on one side, in one lot size.
Trader(user) ==
    IF user = "U1" THEN [company |-> "CoA", side |-> Buy, qty |-> 1]
    ELSE [company |-> "CoB", side |-> Sell, qty |-> MaxQty]

ValidOrders ==
    {Order(i, s, Trader(u).side, Trader(u).qty, u, Trader(u).company) :
        i \in OrderIds, s \in SecIds, u \in Users}

\* an otherwise valid order with one field spoilt
Spoilt(o) ==
    {[o EXCEPT !.orderId = ""], [o EXCEPT !.securityId = ""], [o EXCEPT !.qty = 0],
     [o EXCEPT !.user = ""], [o EXCEPT !.company = ""]}
    \cup {[o EXCEPT !.side = d] : d \in BadSides}

InvalidOrders == Spoilt(Order("O1", "SecA", Buy, 1, "U1", "CoA"))

OrderInputs == ValidOrders \cup InvalidOrders

Init ==
    /\ cache = EmptyCache
    /\ tls = EmptyScratch
    /\ pooled = EmptyPooled
    /\ aliTls = EmptyScratch
    /\ last = "OrderCache"
    /\ NoInterleaving

\* The addresses make_unique may return next: one the pool has not handed out
\* yet, the heap growing upward from the lowest address or downward from the
\* highest.
FreshAddrs(P) ==
    LET used == Cardinality(DOMAIN P.m_pool)
    IN  IF used = 0 THEN {1, MaxPool}
        ELSE IF 1 \in DOMAIN P.m_pool THEN {used + 1} \cap Addrs
        ELSE {MaxPool - used} \cap Addrs

AddOrder(order) ==
    /\ \E ptr \in IF Ali_Rejects(pooled, order) THEN {NullPtr} ELSE FreshAddrs(pooled) :
          pooled' = Ali_addOrder(pooled, order, ptr)
    /\ cache' = addOrder(cache, order)
    /\ last' = "addOrder"
    /\ UNCHANGED <<tls, aliTls, interleaving>>

CancelOrder(orderId) ==
    /\ cache' = cancelOrder(cache, orderId)
    /\ pooled' = Ali_cancelOrder(pooled, orderId)
    /\ last' = "cancelOrder"
    /\ UNCHANGED <<tls, aliTls, interleaving>>

CancelOrdersForUser(user) ==
    /\ \E orderIds \in Enumerations(IF user \in DOMAIN cache.m_ordersByUser
                                    THEN cache.m_ordersByUser[user] ELSE {}) :
          cache' = cancelOrdersForUser(cache, user, orderIds)
    /\ pooled' = Ali_cancelOrdersForUser(pooled, user)
    /\ last' = "cancelOrdersForUser"
    /\ UNCHANGED <<tls, aliTls, interleaving>>

CancelOrdersForSecIdWithMinimumQty(securityId, minQty) ==
    /\ cache' = cancelOrdersForSecIdWithMinimumQty(cache, securityId, minQty)
    /\ pooled' = Ali_cancelOrdersForSecIdWithMinimumQty(pooled, securityId, minQty)
    /\ last' = "cancelOrdersForSecIdWithMinimumQty"
    /\ UNCHANGED <<tls, aliTls, interleaving>>

GetMatchingSizeForSecurity(securityId) ==
    LET r == getMatchingSizeForSecurity(cache, tls, securityId)
        aliR == Ali_getMatchingSizeForSecurity(pooled, aliTls, securityId)
    IN  /\ tls' = r.scratch
        /\ aliTls' = aliR.scratch
        /\ last' = "getMatchingSizeForSecurity"
        /\ UNCHANGED <<cache, pooled, interleaving>>

GetAllOrders ==
    /\ last' = "getAllOrders"
    /\ UNCHANGED <<cache, tls, pooled, aliTls, interleaving>>

\* The calls that change the caches, with every kind of argument, and the
\* read of all orders.  The queries of getMatchingSizeForSecurity, which leave
\* their working copies in the static vectors, are made in SpecMatch below.
Next ==
    \/ \E order \in OrderInputs : AddOrder(order)
    \/ \E orderId \in OrderIds \cup {""} : CancelOrder(orderId)
    \/ \E user \in Users \cup {""} : CancelOrdersForUser(user)
    \/ \E securityId \in SecIds \cup {""}, minQty \in 0..MaxQty + 1 :
          CancelOrdersForSecIdWithMinimumQty(securityId, minQty)
    \/ GetAllOrders

Spec == Init /\ [][Next]_vars

(***************************************************************************)
(* The matching specification: the caches start holding up to MatchOrders  *)
(* orders of one security, put there by addOrder, and are then queried and *)
(* thinned out.  Insertion order can only change the order of a bucket,    *)
(* which the sorts undo except between tied orders, so the orders are      *)
(* inserted by rising profile number while the pool hands out rising or    *)
(* falling addresses: either order of two tied orders is offered to the    *)
(* sort by pointer.                                                        *)
(***************************************************************************)
MatchOrders == 4   \* number of orders inserted before the queries

\* an order is of one lot or of MaxQty lots
LotSizes == <<1, MaxQty>>

NumProfiles == Len(Sides) * Len(CompanyNames) * Len(LotSizes)

\* profile n of 0..NumProfiles-1: a side, a company and a quantity
MatchProfile(n) ==
    [side |-> Sides[(n % Len(Sides)) + 1],
     company |-> CompanyNames[((n \div Len(Sides)) % Len(CompanyNames)) + 1],
     qty |-> LotSizes[(n \div (Len(Sides) * Len(CompanyNames))) + 1]]

MatchOrder(i, n) ==
    Order(IdNames[i], "SecA", MatchProfile(n).side, MatchProfile(n).qty, "U1",
          MatchProfile(n).company)

AddrPlans(k) == {[i \in 1..k |-> i], [i \in 1..k |-> k + 1 - i]}

RECURSIVE AddAll(_, _)
AddAll(S, orders) ==
    IF orders = <<>> THEN S ELSE AddAll(addOrder(S, Head(orders)), Tail(orders))

RECURSIVE Ali_AddAll(_, _, _)
Ali_AddAll(P, orders, ptrs) ==
    IF orders = <<>> THEN P
    ELSE Ali_AddAll(Ali_addOrder(P, Head(orders), Head(ptrs)), Tail(orders), Tail(ptrs))

InitMatch ==
    \E k \in 0..MatchOrders :
        \E profiles \in [1..k -> 0..NumProfiles - 1], ptrs \in AddrPlans(k) :
            /\ \A i \in 1..k - 1 : profiles[i] <= profiles[i + 1]
            /\ LET orders == [i \in 1..k |-> MatchOrder(i, profiles[i])]
               IN  /\ cache = AddAll(EmptyCache, orders)
                   /\ tls = EmptyScratch
                   /\ pooled = Ali_AddAll(EmptyPooled, orders, ptrs)
                   /\ aliTls = EmptyScratch
                   /\ last = "OrderCache"
                   /\ NoInterleaving

NextMatch ==
    \/ \E securityId \in SecIds \cup {""} : GetMatchingSizeForSecurity(securityId)
    \/ CancelOrdersForSecIdWithMinimumQty("SecA", MaxQty)

SpecMatch == InitMatch /\ [][NextMatch]_vars

(***************************************************************************)
(* The same with quantities from the upper half of unsigned int: an order  *)
(* is of one lot or of 2^31 units.                                         *)
(***************************************************************************)
HalfRange == UIntWrap \div 2

WideOrder(i, n) ==
    [MatchOrder(i, n) EXCEPT !.qty = IF @ = 1 THEN 1 ELSE HalfRange]

InitWide ==
    \E k \in 0..MatchOrders :
        \E profiles \in [1..k -> 0..NumProfiles - 1], ptrs \in AddrPlans(k) :
            /\ \A i \in 1..k - 1 : profiles[i] <= profiles[i + 1]
            /\ LET orders == [i \in 1..k |-> WideOrder(i, profiles[i])]
               IN  /\ cache = AddAll(EmptyCache, orders)
                   /\ tls = EmptyScratch
                   /\ pooled = Ali_AddAll(EmptyPooled, orders, ptrs)
                   /\ aliTls = EmptyScratch
                   /\ last = "OrderCache"
                   /\ NoInterleaving

SpecWide == InitWide /\ [][NextMatch]_vars

(***************************************************************************)
(* What a caller can learn of a cache: the resident orders by id, and for  *)
(* every bucket how many times it lists each id.  Both implementations are *)
(* read into the same shape.                                               *)
(***************************************************************************)
IdUniverse == {IdNames[i] : i \in 1..Len(IdNames)} \cup {""}

Count(seq, x) == Cardinality({i \in 1..Len(seq) : seq[i] = x})

\* the resident orders by id
Resident(S) == S.m_orders

Ali_Resident(P) == [id \in DOMAIN P.m_orders |-> toOrder(P.m_pool[P.m_orders[id]])]

View(S) ==
    [orders |-> Resident(S),
     userCount |-> [u \in DOMAIN S.m_ordersByUser |->
                       [id \in IdUniverse |-> IF id \in S.m_ordersByUser[u] THEN 1 ELSE 0]],
     secCount |-> [s \in DOMAIN S.m_ordersBySecId |->
                      [id \in IdUniverse |-> Count(S.m_ordersBySecId[s], id)]]]

IdsOf(P, orderPtrs) == [k \in 1..Len(orderPtrs) |-> P.m_pool[orderPtrs[k]].orderId]

Ali_View(P) ==
    [orders |-> Ali_Resident(P),
     userCount |-> [u \in DOMAIN P.m_ordersByUser |->
                       [id \in IdUniverse |-> Count(IdsOf(P, P.m_ordersByUser[u]), id)]],
     secCount |-> [s \in DOMAIN P.m_ordersBySecId |->
                      [id \in IdUniverse |-> Count(IdsOf(P, P.m_ordersBySecId[s]), id)]]]

\* the pointers the buckets of the pooled cache hold
BucketPtrs(P) ==
    UNION {Range(P.m_ordersByUser[u]) : u \in DOMAIN P.m_ordersByUser}
    \cup UNION {Range(P.m_ordersBySecId[s]) : s \in DOMAIN P.m_ordersBySecId}

ViaUser(V) == {id \in IdUniverse : \E u \in DOMAIN V.userCount : V.userCount[u][id] > 0}
ViaSec(V) == {id \in IdUniverse : \E s \in DOMAIN V.secCount : V.secCount[s][id] > 0}

\* the buckets that list id, with the number of times each lists it
Memberships(V, id) ==
    [users |-> [u \in {x \in DOMAIN V.userCount : V.userCount[x][id] > 0} |-> V.userCount[u][id]],
     secs |-> [s \in {x \in DOMAIN V.secCount : V.secCount[x][id] > 0} |-> V.secCount[s][id]]]

\* the pool records no index points to any more
Dead(P) == {P.m_pool[ptr] : ptr \in DOMAIN P.m_pool \ {P.m_orders[id] : id \in DOMAIN P.m_orders}}

\* the address the pool handed out last
Newest(P) ==
    IF 1 \in DOMAIN P.m_pool THEN Cardinality(DOMAIN P.m_pool)
    ELSE MaxPool + 1 - Cardinality(DOMAIN P.m_pool)

\* The latest call was an addOrder that admitted nothing: the record the pool
\* handed out last belongs to an order cancelled before that call.
AddRejected ==
    /\ last = "addOrder"
    /\ pooled.m_pool # <<>>
    /\ pooled.m_pool[Newest(pooled)] \in Dead(pooled)

(***************************************************************************)
(* The reuse specification: the caches start holding up to NumIds orders   *)
(* of the users and securities of Spec, put there by addOrder while the    *)
(* heap grows upward; orders are then cancelled by each of the three       *)
(* cancellations, and orders are inserted under the ids of cancelled       *)
(* orders until the pool has one record more than MaxPool.                 *)
(***************************************************************************)
InitReuse ==
    \E k \in 0..NumIds :
        \E orders \in [1..k -> ValidOrders] :
            /\ \A i \in 1..k : orders[i].orderId = IdNames[i]
            /\ cache = AddAll(EmptyCache, orders)
            /\ tls = EmptyScratch
            /\ pooled = Ali_AddAll(EmptyPooled, orders, [i \in 1..k |-> i])
            /\ aliTls = EmptyScratch
            /\ last = "OrderCache"
            /\ NoInterleaving

\* the address make_unique returns when the heap grows upward
AboveAll(P) == {Cardinality(DOMAIN P.m_pool) + 1}

\* addOrder under an id that a cancelled order had
ReuseOrder(order) ==
    /\ \E gone \in Dead(pooled) : gone.orderId = order.orderId
    /\ Cardinality(DOMAIN pooled.m_pool) <= MaxPool
    /\ \E ptr \in IF Ali_Rejects(pooled, order) THEN {NullPtr} ELSE AboveAll(pooled) :
          pooled' = Ali_addOrder(pooled, order, ptr)
    /\ cache' = addOrder(cache, order)
    /\ last' = "addOrder"
    /\ UNCHANGED <<tls, aliTls, interleaving>>

NextReuse ==
    \/ \E orderId \in OrderIds : CancelOrder(orderId)
    \/ \E user \in Users : CancelOrdersForUser(user)
    \/ \E securityId \in SecIds, minQty \in 1..MaxQty :
          CancelOrdersForSecIdWithMinimumQty(securityId, minQty)
    \/ \E order \in ValidOrders : ReuseOrder(order)

SpecReuse == InitReuse /\ [][NextReuse]_vars

(***************************************************************************)
(* The specification of two securities: the caches start as in SpecReuse,  *)
(* holding up to NumIds orders of either security; they are queried for    *)
(* either security, while one more order, of either security and under an  *)
(* id of its own, is inserted and cancelled until the pool has one record  *)
(* more than MaxPool.                                                      *)
(***************************************************************************)
SpareId == IdNames[NumIds + 1]

SpareOrders ==
    {Order(SpareId, s, Trader(u).side, Trader(u).qty, u, Trader(u).company) :
        s \in SecIds, u \in Users}

\* addOrder while the heap grows upward
InsertOrder(order) ==
    /\ Cardinality(DOMAIN pooled.m_pool) <= MaxPool
    /\ \E ptr \in IF Ali_Rejects(pooled, order) THEN {NullPtr} ELSE AboveAll(pooled) :
          pooled' = Ali_addOrder(pooled, order, ptr)
    /\ cache' = addOrder(cache, order)
    /\ last' = "addOrder"
    /\ UNCHANGED <<tls, aliTls, interleaving>>

NextSecurities ==
    \/ \E securityId \in SecIds : GetMatchingSizeForSecurity(securityId)
    \/ \E order \in SpareOrders : InsertOrder(order)
    \/ CancelOrder(SpareId)

SpecSecurities == InitReuse /\ [][NextSecurities]_vars

(***************************************************************************)
(* The interleaving specification: two callers call addOrder and           *)
(* cancelOrder of OrderCache.cpp and cancelOrdersForUser of                *)
(* AliMajidi/OrderCache.cpp with nothing to keep them apart.  A call takes *)
(* one step for each update of an index; the reads that lead to an update  *)
(* are part of its step.  A caller whose reference or iterator into        *)
(* m_orders was invalidated by an erase of the other caller reads what the *)
(* freed node happens to hold: any user, any security, and its erase       *)
(* through the iterator removes the entry now under the id or nothing.     *)
(***************************************************************************)
MaxCalls == 2      \* number of calls the two callers begin

\* the validation of addOrder that follows try_emplace
FailsValidation(order) ==
    LET side == order.side
    IN  \/ order.securityId = "" \/ side = <<>> \/ order.user = "" \/ order.company = ""
        \/ order.qty = 0
        \/ Len(side) < 3 \/ Len(side) > 4
        \/ IF side[1] = "B" THEN side # Buy
           ELSE IF side[1] = "S" THEN side # Sell
           ELSE TRUE

\* m_orders.try_emplace(orderId, std::move(order))
EmplaceOrder(S, order) == [S EXCEPT !.m_orders = Put(@, order.orderId, order)]

\* m_orders.erase(it)
EraseOrder(S, orderId) == [S EXCEPT !.m_orders = Erase(@, orderId)]

\* the update of the user index starting the bucket anew
IndexByUser_FreshBucket(S, user, orderId) ==
    [S EXCEPT !.m_ordersByUser = Put(@, user, {orderId})]

\* m_ordersByUser.try_emplace(user), then emplace(orderId) into the set
IndexByUser(S, user, orderId) ==
    LET userBucket == IF user \in DOMAIN S.m_ordersByUser THEN S.m_ordersByUser[user] ELSE {}
    IN  [S EXCEPT !.m_ordersByUser = Put(@, user, userBucket \cup {orderId})]

\* m_ordersBySecId.try_emplace(securityId), then emplace_back(orderId)
IndexBySecId(S, securityId, orderId) ==
    LET secBucket == IF securityId \in DOMAIN S.m_ordersBySecId
                     THEN S.m_ordersBySecId[securityId] ELSE <<>>
    IN  [S EXCEPT !.m_ordersBySecId = Put(@, securityId, Append(secBucket, orderId))]

\* cancelOrder: remove from user index
RemoveFromUser(S, user, orderId) ==
    IF user \in DOMAIN S.m_ordersByUser
    THEN LET ids == S.m_ordersByUser[user] \ {orderId}
         IN  [S EXCEPT !.m_ordersByUser = IF ids = {} THEN Erase(@, user)
                                          ELSE [@ EXCEPT ![user] = ids]]
    ELSE S

\* cancelOrder: remove from security ID index
RemoveFromSecId(S, securityId, orderId) ==
    IF securityId \in DOMAIN S.m_ordersBySecId
    THEN LET orderIds == Remove(S.m_ordersBySecId[securityId], orderId)
         IN  [S EXCEPT !.m_ordersBySecId = IF orderIds = <<>> THEN Erase(@, securityId)
                                           ELSE [@ EXCEPT ![securityId] = orderIds]]
    ELSE S

\* the cache a call is made on
StoreOf(op) == IF op = "cancelOrdersForUser" THEN "pooled" ELSE "cache"

InProgress(c) == calls[c].op # ""

\* the callers in the middle of a call on `store`
Within(store) == {c \in Callers : InProgress(c) /\ StoreOf(calls[c].op) = store}

\* the references and iterators of the other callers to the node of orderId
\* dangle once caller c has erased it
Invalidated(c, orderId) ==
    [d \in Callers |->
        IF d # c /\ d \in Within("cache") /\ calls[d].order.orderId = orderId
        THEN [calls[d] EXCEPT !.dangling = TRUE]
        ELSE calls[d]]

\* caller c is past the first update of `call`
Enter(c, call) ==
    /\ calls' = [calls EXCEPT ![c] = call]
    /\ overlapped' = IF Within(StoreOf(call.op)) \ {c} # {}
                     THEN overlapped \cup {StoreOf(call.op)} ELSE overlapped

\* a call begins: an early return leaves the caller where it was
Begin(c, op) ==
    /\ ~InProgress(c)
    /\ begun < MaxCalls
    /\ begun' = begun + 1
    /\ last' = op

\* what m_orders.erase(it) of caller c can leave
ErasedThroughIterator(c) ==
    IF calls[c].dangling THEN {cache, EraseOrder(cache, calls[c].order.orderId)}
    ELSE {EraseOrder(cache, calls[c].order.orderId)}

\* the user and the security that caller c reads through its reference
UserRead(c) == IF calls[c].dangling THEN Users ELSE {calls[c].order.user}
SecurityIdRead(c) == IF calls[c].dangling THEN SecIds ELSE {calls[c].order.securityId}

\* addOrder up to try_emplace and the validation
BeginAddOrder(c, order) ==
    /\ Begin(c, "addOrder")
    /\ IF order.orderId = "" \/ order.orderId \in DOMAIN cache.m_orders
       THEN UNCHANGED <<cache, calls, overlapped>>
       ELSE /\ cache' = EmplaceOrder(cache, order)
            /\ Enter(c, [op |-> "addOrder", order |-> order,
                         pc |-> IF FailsValidation(order) THEN "erase" ELSE "user",
                         dangling |-> FALSE, orderPtrs |-> <<>>])
    /\ UNCHANGED <<tls, pooled, aliTls>>

\* the next update of the addOrder of caller c
StepAddOrder(c) ==
    /\ calls[c].op = "addOrder"
    /\ LET orderId == calls[c].order.orderId
       IN  CASE calls[c].pc = "erase" ->
                  /\ cache' \in ErasedThroughIterator(c)
                  /\ calls' = [Invalidated(c, orderId) EXCEPT ![c] = Returned]
             [] calls[c].pc = "user" ->
                  /\ \E user \in UserRead(c) : cache' = IndexByUser(cache, user, orderId)
                  /\ calls' = [calls EXCEPT ![c].pc = "secId"]
             [] calls[c].pc = "secId" ->
                  /\ \E securityId \in SecurityIdRead(c) :
                        cache' = IndexBySecId(cache, securityId, orderId)
                  /\ calls' = [calls EXCEPT ![c] = Returned]
    /\ UNCHANGED <<tls, pooled, aliTls, last, overlapped, begun>>

\* cancelOrder up to the removal from the user index
BeginCancelOrder(c, orderId) ==
    /\ Begin(c, "cancelOrder")
    /\ IF orderId \notin DOMAIN cache.m_orders
       THEN UNCHANGED <<cache, calls, overlapped>>
       ELSE LET order == cache.m_orders[orderId]
            IN  /\ cache' = RemoveFromUser(cache, order.user, orderId)
                /\ Enter(c, [op |-> "cancelOrder", order |-> order, pc |-> "secId",
                             dangling |-> FALSE, orderPtrs |-> <<>>])
    /\ UNCHANGED <<tls, pooled, aliTls>>

\* the next update of the cancelOrder of caller c
StepCancelOrder(c) ==
    /\ calls[c].op = "cancelOrder"
    /\ LET orderId == calls[c].order.orderId
       IN  CASE calls[c].pc = "secId" ->
                  /\ \E securityId \in SecurityIdRead(c) :
                        cache' = RemoveFromSecId(cache, securityId, orderId)
                  /\ calls' = [calls EXCEPT ![c].pc = "orders"]
             [] calls[c].pc = "orders" ->
                  /\ cache' \in ErasedThroughIterator(c)
                  /\ calls' = [Invalidated(c, orderId) EXCEPT ![c] = Returned]
    /\ UNCHANGED <<tls, pooled, aliTls, last, overlapped, begun>>

\* cancelOrdersForUser of the pooled cache up to the erase of the user's key
BeginCancelOrdersForUser(c, user) ==
    /\ Begin(c, "cancelOrdersForUser")
    /\ IF user \notin DOMAIN pooled.m_ordersByUser
       THEN UNCHANGED <<pooled, calls, overlapped>>
       ELSE LET orderPtrs == pooled.m_ordersByUser[user]
            IN  /\ pooled' = [pooled EXCEPT !.m_ordersByUser = Erase(@, user)]
                /\ IF orderPtrs = <<>> THEN UNCHANGED <<calls, overlapped>>
                   ELSE Enter(c, [op |-> "cancelOrdersForUser", order |-> NoOrder,
                                  pc |-> "secId", dangling |-> FALSE,
                                  orderPtrs |-> orderPtrs])
    /\ UNCHANGED <<cache, tls, aliTls>>

\* the next update of the loop of cancelOrdersForUser for caller c
StepCancelOrdersForUser(c) ==
    /\ calls[c].op = "cancelOrdersForUser"
    /\ LET orderPtr == Head(calls[c].orderPtrs)
           rest == Tail(calls[c].orderPtrs)
       IN  CASE calls[c].pc = "secId" ->
                  /\ pooled' = [pooled EXCEPT
                                   !.m_ordersBySecId = Ali_RemoveFromSecId(pooled, orderPtr)]
                  /\ calls' = [calls EXCEPT ![c].pc = "orders"]
             [] calls[c].pc = "orders" ->
                  /\ pooled' = [release(pooled, orderPtr) EXCEPT
                                   !.m_orders = Erase(@, pooled.m_pool[orderPtr].orderId)]
                  /\ calls' = [calls EXCEPT
                                  ![c] = IF rest = <<>> THEN Returned
                                         ELSE [@ EXCEPT !.pc = "secId", !.orderPtrs = rest]]
    /\ UNCHANGED <<cache, tls, aliTls, last, overlapped, begun>>

\* the orders offered to the interleaved addOrder calls: the valid orders of
\* one security, and one that fails the validation
RaceOrders ==
    {o \in ValidOrders : o.securityId = "SecA"}
    \cup {Order("O1", "SecA", Buy, 0, "U1", "CoA")}

InitRaces ==
    \E k \in 0..NumIds :
        \E orders \in [1..k -> RaceOrders \cap ValidOrders] :
            /\ \A i \in 1..k : orders[i].orderId = IdNames[i]
            /\ cache = AddAll(EmptyCache, orders)
            /\ tls = EmptyScratch
            /\ pooled = Ali_AddAll(EmptyPooled, orders, [i \in 1..k |-> i])
            /\ aliTls = EmptyScratch
            /\ last = "OrderCache"
            /\ NoInterleaving

NextRaces ==
    \/ \E c \in Callers, order \in RaceOrders : BeginAddOrder(c, order)
    \/ \E c \in Callers : StepAddOrder(c)
    \/ \E c \in Callers, orderId \in OrderIds : BeginCancelOrder(c, orderId)
    \/ \E c \in Callers : StepCancelOrder(c)
    \/ \E c \in Callers, user \in Users : BeginCancelOrdersForUser(c, user)
    \/ \E c \in Callers : StepCancelOrdersForUser(c)

SpecRaces == InitRaces /\ [][NextRaces]_vars

(***************************************************************************)
(* C1  The three views agree                                               *)
(***************************************************************************)
ViewsAgree(V) ==
    /\ DOMAIN V.orders = ViaUser(V)
    /\ DOMAIN V.orders = ViaSec(V)
    /\ \A id \in DOMAIN V.orders :
          /\ V.orders[id].orderId = id
          /\ V.orders[id].user \in DOMAIN V.userCount
          /\ V.orders[id].securityId \in DOMAIN V.secCount
          /\ \A u \in DOMAIN V.userCount :
                V.userCount[u][id] = IF u = V.orders[id].user THEN 1 ELSE 0
          /\ \A s \in DOMAIN V.secCount :
                V.secCount[s][id] = IF s = V.orders[id].securityId THEN 1 ELSE 0

\* C1: after any sequence of addOrder and cancel calls the ids of the primary
\* index, of the user buckets and of the security buckets are the same set,
\* and every resident order is listed exactly once in the bucket of its own
\* user, exactly once in the bucket of its own security and in no other
\* bucket; in the pooled cache the buckets hold the very pointers of m_orders.
C1_ViewsAgree ==
    /\ ViewsAgree(View(cache))
    /\ ViewsAgree(Ali_View(pooled))
    /\ BucketPtrs(pooled) = {pooled.m_orders[id] : id \in DOMAIN pooled.m_orders}

\* an order survived a cancellation by security that removed another one
C1_Witness ==
    /\ last = "cancelOrdersForSecIdWithMinimumQty"
    /\ Cardinality(DOMAIN cache.m_orders) = 1
    /\ Cardinality(DOMAIN pooled.m_orders) = 1
    /\ Cardinality(DOMAIN pooled.m_pool) = 2

(***************************************************************************)
(* C2  Order ids are unique; a colliding insert is rejected                *)
(***************************************************************************)
UniqueIds(V) ==
    \A id \in IdUniverse :
        Cardinality({u \in DOMAIN V.userCount : V.userCount[u][id] > 0}) <= 1
        /\ \A u \in DOMAIN V.userCount : V.userCount[u][id] <= 1

CollidingInsert(order) ==
    /\ order.orderId \in DOMAIN cache.m_orders \cup DOMAIN pooled.m_orders
    /\ AddOrder(order)

\* C2: no two resident orders share an order id, and an addOrder whose id is
\* already resident, whatever its other fields, leaves the resident order,
\* the indices and the size of both caches as they were: a call of addOrder
\* that changes either cache is not a colliding one.
C2_UniqueIds ==
    /\ [](UniqueIds(View(cache)) /\ UniqueIds(Ali_View(pooled)))
    /\ [][(last' = "addOrder" /\ (cache' # cache \/ pooled' # pooled))
            => \A order \in OrderInputs : ~CollidingInsert(order)]_vars

\* an addOrder has just been turned away while the id of every order that
\* addOrder can turn away, the empty id apart, was resident
C2_Witness ==
    /\ AddRejected
    /\ {order.orderId : order \in InvalidOrders} \ {""} \subseteq DOMAIN cache.m_orders
    /\ DOMAIN pooled.m_orders = DOMAIN cache.m_orders

(***************************************************************************)
(* C3  Invalid orders are not admitted                                     *)
(***************************************************************************)
Invalid(order) ==
    \/ order.orderId = "" \/ order.securityId = "" \/ order.side = <<>>
    \/ order.user = "" \/ order.company = ""
    \/ order.side \notin {Buy, Sell}
    \/ order.qty = 0

Indices(S) == <<S.m_orders, S.m_ordersByUser, S.m_ordersBySecId>>

\* C3: an addOrder of an order with an empty orderId, securityId, side, user
\* or company, with a side other than "Buy" and "Sell", or with quantity 0
\* leaves the primary index and all buckets of both caches unchanged: a call
\* of addOrder that changes an index of either cache is not one of an invalid
\* order.
C3_InvalidInsertNoEffect ==
    [][(last' = "addOrder"
          /\ (Indices(cache') # Indices(cache) \/ Indices(pooled') # Indices(pooled)))
        => \A order \in OrderInputs : ~(Invalid(order) /\ AddOrder(order))]_vars

\* an addOrder has just been turned away by caches that hold no order, so
\* that no id could collide: the order was an invalid one
C3_Witness ==
    /\ AddRejected
    /\ Indices(cache) = Indices(EmptyCache)
    /\ DOMAIN pooled.m_orders = {}

(***************************************************************************)
(* C4  Resident orders are well formed                                     *)
(***************************************************************************)
WellFormed(order) ==
    /\ order.orderId # "" /\ order.securityId # "" /\ order.user # "" /\ order.company # ""
    /\ order.qty > 0
    /\ order.side \in {Buy, Sell}

\* C4: every resident order of either cache has a non-empty orderId,
\* securityId, user and company, a quantity above 0 and the side "Buy" or
\* "Sell" exactly.
C4_ResidentWellFormed ==
    /\ \A id \in DOMAIN cache.m_orders : WellFormed(cache.m_orders[id])
    /\ \A id \in DOMAIN pooled.m_orders : WellFormed(pooled.m_pool[pooled.m_orders[id]])
    /\ \A ptr \in BucketPtrs(pooled) : WellFormed(pooled.m_pool[ptr])

\* a "Buy" and a "Sell" order are resident in both caches after an addOrder
C4_Witness ==
    /\ last = "addOrder"
    /\ {cache.m_orders[id].side : id \in DOMAIN cache.m_orders} = {Buy, Sell}
    /\ {pooled.m_pool[pooled.m_orders[id]].side : id \in DOMAIN pooled.m_orders} = {Buy, Sell}

(***************************************************************************)
(* C5  cancelOrdersForUser removes exactly the orders of the user          *)
(***************************************************************************)
\* W is V with exactly the orders of `gone` removed from the primary index and
\* from every bucket, and every other order as it was
Removed(V, W, gone) ==
    /\ DOMAIN W.orders = DOMAIN V.orders \ gone
    /\ \A id \in gone : Memberships(W, id) = [users |-> <<>>, secs |-> <<>>]
    /\ \A id \in DOMAIN V.orders \ gone :
          /\ W.orders[id] = V.orders[id]
          /\ Memberships(W, id) = Memberships(V, id)

OfUser(V, user) == {id \in DOMAIN V.orders : V.orders[id].user = user}

\* what Removed asks of a call that took V to W, with the user left without
\* orders and nothing touched when there was nothing to remove
UserCancelled(V, W, user, untouched) ==
    LET gone == OfUser(V, user)
    IN  /\ Removed(V, W, gone)
        /\ OfUser(W, user) = {}
        /\ (gone = {} => untouched)

\* C5: in every reachable state a call of cancelOrdersForUser(user) removes
\* from the primary index and from the buckets of both caches the resident
\* orders whose user is `user` and no other: afterwards no resident order has
\* that user, every order of another user is resident with the fields and
\* the bucket memberships it had, and when the user had no order both caches
\* are as they were.
C5_CancelForUserExact ==
    LET V == View(cache)
        AliV == Ali_View(pooled)
    IN  \A user \in Users \cup {""} :
            /\ \A orderIds \in Enumerations(IF user \in DOMAIN cache.m_ordersByUser
                                             THEN cache.m_ordersByUser[user] ELSE {}) :
                  LET after == cancelOrdersForUser(cache, user, orderIds)
                      W == View(after)
                  IN  UserCancelled(V, W, user, after = cache)
            /\ LET after == Ali_cancelOrdersForUser(pooled, user)
                   AliW == Ali_View(after)
               IN  UserCancelled(AliV, AliW, user, after = pooled)

\* cancelOrdersForUser was the latest call; the pool keeps the record of an
\* order of a user who has no resident order left, and an order of another
\* user is resident
C5_Witness ==
    /\ last = "cancelOrdersForUser"
    /\ \E gone \in Dead(pooled) :
          /\ OfUser(View(cache), gone.user) = {}
          /\ OfUser(Ali_View(pooled), gone.user) = {}
          /\ \E id \in DOMAIN cache.m_orders \cap DOMAIN pooled.m_orders :
                cache.m_orders[id].user # gone.user

(***************************************************************************)
(* C6  cancelOrdersForSecIdWithMinimumQty removes exactly the orders of    *)
(*     the security with at least the quantity                             *)
(***************************************************************************)
OfSecAtLeast(V, securityId, minQty) ==
    {id \in DOMAIN V.orders :
        V.orders[id].securityId = securityId /\ V.orders[id].qty >= minQty}

\* C6: in every reachable state a call of
\* cancelOrdersForSecIdWithMinimumQty(securityId, minQty) with a
\* non-empty securityId and minQty > 0 removes from both caches the resident
\* orders of that security whose quantity is minQty or more, an order of
\* exactly minQty included, and no other: the orders of the security with a
\* smaller quantity and the orders of other securities stay as they were.
C6_CancelForSecExact ==
    LET V == View(cache)
        AliV == Ali_View(pooled)
    IN  \A securityId \in SecIds, minQty \in 1..MaxQty + 1 :
            LET W == View(cancelOrdersForSecIdWithMinimumQty(cache, securityId, minQty))
                AliW == Ali_View(Ali_cancelOrdersForSecIdWithMinimumQty(pooled, securityId,
                                                                        minQty))
            IN  /\ Removed(V, W, OfSecAtLeast(V, securityId, minQty))
                /\ Removed(AliV, AliW, OfSecAtLeast(AliV, securityId, minQty))

\* cancelOrdersForSecIdWithMinimumQty was the latest call; an order of a
\* security is resident, and the pool keeps the record of a larger order of
\* that security while no order of the security that large is resident
C6_Witness ==
    /\ last = "cancelOrdersForSecIdWithMinimumQty"
    /\ \E gone \in Dead(pooled) :
          /\ OfSecAtLeast(View(cache), gone.securityId, gone.qty) = {}
          /\ OfSecAtLeast(Ali_View(pooled), gone.securityId, gone.qty) = {}
          /\ OfSecAtLeast(View(cache), gone.securityId, 1) # {}
          /\ OfSecAtLeast(Ali_View(pooled), gone.securityId, 1) # {}

(***************************************************************************)
(* C7  getMatchingSizeForSecurity returns the total of the greedy          *)
(*     procedure on the resident orders                                    *)
(***************************************************************************)
\* V maps the ids of the resident orders to the orders
OnSide(V, securityId, side) ==
    {id \in DOMAIN V :
        V[id].securityId = securityId /\ V[id].side = side}

\* the ways to put the orders `ids` in descending order of quantity: any of
\* the largest first, then the others in descending order
RECURSIVE Descending(_, _)
Descending(V, ids) ==
    IF ids = {} THEN {<<>>}
    ELSE LET largest == {x \in ids : \A y \in ids : V[y].qty <= V[x].qty}
         IN  UNION {{<<x>> \o rest : rest \in Descending(V, ids \ {x})} : x \in largest}

\* The greedy procedure: the buys in turn, for each the sells in turn; a pair
\* of different companies trades the smaller of what the two have left,
\* which is nothing once either is used up.  left[id] is what id has left.
RECURSIVE Greedy(_, _, _, _, _, _, _)
Greedy(V, buys, sells, i, j, left, total) ==
    IF i > Len(buys) THEN total
    ELSE IF j > Len(sells) THEN Greedy(V, buys, sells, i + 1, 1, left, total)
    ELSE LET b == buys[i]
             s == sells[j]
             traded == IF V[b].company = V[s].company THEN 0
                       ELSE IF left[b] <= left[s] THEN left[b] ELSE left[s]
         IN  Greedy(V, buys, sells, i, j + 1,
                    [left EXCEPT ![b] = @ - traded, ![s] = @ - traded], total + traded)

\* the totals of the greedy procedure, one for each way to order the ties
GreedyTotals(V, securityId) ==
    {Greedy(V, buys, sells, 1, 1, [id \in DOMAIN V |-> V[id].qty], 0) :
        buys \in Descending(V, OnSide(V, securityId, Buy)),
        sells \in Descending(V, OnSide(V, securityId, Sell))}

Queries == SecIds \cup {""}

\* C7: in every state reached by inserts and cancellations, whatever earlier
\* queries left in the static vectors, getMatchingSizeForSecurity returns for
\* every security the total of the greedy procedure run on the orders now
\* resident for it, each side taken in a descending order of quantity; the
\* records of cancelled orders that the pool keeps add nothing.
C7_MatchesGreedy ==
    LET V == Resident(cache)
        AliV == Ali_Resident(pooled)
    IN  \A securityId \in Queries :
            /\ getMatchingSizeForSecurity(cache, tls, securityId).ret
                  \in GreedyTotals(V, securityId)
            /\ Ali_getMatchingSizeForSecurity(pooled, aliTls, securityId).ret
                  \in GreedyTotals(AliV, securityId)

\* A query has run after a cancellation: the pool keeps a cancelled record,
\* a buy and a sell of one company are resident, a sell was left with
\* quantity, and the total is above 0.
C7_Witness ==
    /\ last = "getMatchingSizeForSecurity"
    /\ Dead(pooled) # {}
    /\ \E b \in OnSide(Resident(cache), "SecA", Buy), s \in OnSide(Resident(cache), "SecA", Sell) :
          cache.m_orders[b].company = cache.m_orders[s].company
    /\ \E k \in DOMAIN tls.sellOrders : tls.sellOrders[k].first > 0
    /\ \E k \in DOMAIN aliTls.sellOrders : aliTls.sellOrders[k].first > 0
    /\ getMatchingSizeForSecurity(cache, tls, "SecA").ret > 0
    /\ Ali_getMatchingSizeForSecurity(pooled, aliTls, "SecA").ret > 0

(***************************************************************************)
(* C8  Self-trade exclusion                                                *)
(***************************************************************************)
\* the securities whose bucket the query walks
Walked(S) == DOMAIN S.m_ordersBySecId

\* C8: no execution of the matching statements of getMatchingSizeForSecurity
\* pairs a buy and a sell of the same company, and when every buy and sell
\* resident for a security are of one company the query returns 0.
C8_NoSelfTrade ==
    /\ \A securityId \in Walked(cache) :
          LET r == MatchingRun(cache, tls, securityId)
          IN  \A k \in DOMAIN r.matches :
                  /\ r.matches[k].matchQty > 0
                  /\ r.sortedBuys[r.matches[k].buy].second
                        # r.sortedSells[r.matches[k].sell].second
    /\ \A securityId \in Walked(pooled) :
          LET r == Ali_MatchingRun(pooled, aliTls, securityId)
          IN  \A k \in DOMAIN r.matches :
                  /\ r.matches[k].matchQty > 0
                  /\ pooled.m_pool[r.sortedBuys[r.matches[k].buy].second].company
                        # pooled.m_pool[r.sortedSells[r.matches[k].sell].second].company
    /\ \A securityId \in Queries :
          LET V == Resident(cache)
              AliV == Ali_Resident(pooled)
          IN  /\ (\A b \in OnSide(V, securityId, Buy), s \in OnSide(V, securityId, Sell) :
                      V[b].company = V[s].company)
                    => getMatchingSizeForSecurity(cache, tls, securityId).ret = 0
              /\ (\A b \in OnSide(AliV, securityId, Buy), s \in OnSide(AliV, securityId, Sell) :
                      AliV[b].company = AliV[s].company)
                    => Ali_getMatchingSizeForSecurity(pooled, aliTls, securityId).ret = 0

\* A query has run over buys and sells that are all of one company: both
\* sides were collected into the static vectors and nothing was taken from
\* any entry.
C8_Witness ==
    /\ last = "getMatchingSizeForSecurity"
    /\ OnSide(Resident(cache), "SecA", Buy) # {} /\ OnSide(Resident(cache), "SecA", Sell) # {}
    /\ Cardinality({cache.m_orders[id].company : id \in DOMAIN cache.m_orders}) = 1
    /\ Cardinality(DOMAIN cache.m_orders) >= 3
    /\ Len(tls.buyOrders) + Len(tls.sellOrders) = Cardinality(DOMAIN cache.m_orders)
    /\ Len(aliTls.buyOrders) + Len(aliTls.sellOrders) = Cardinality(DOMAIN pooled.m_orders)
    /\ \A k \in DOMAIN aliTls.buyOrders :
          aliTls.buyOrders[k].first = pooled.m_pool[aliTls.buyOrders[k].second].qty

(***************************************************************************)
(* C9  The total is bounded by the eligible quantity of either side        *)
(***************************************************************************)
RECURSIVE SumQty(_, _)
SumQty(V, ids) ==
    IF ids = {} THEN 0
    ELSE LET id == CHOOSE x \in ids : TRUE
         IN  V[id].qty + SumQty(V, ids \ {id})

\* the orders of `ids` that have an order of another company among `others`
Eligible(V, ids, others) ==
    {id \in ids : \E other \in others : V[other].company # V[id].company}

Smaller(a, b) == IF a <= b THEN a ELSE b

EligibleBound(V, securityId) ==
    LET buys == OnSide(V, securityId, Buy)
        sells == OnSide(V, securityId, Sell)
    IN  Smaller(SumQty(V, Eligible(V, buys, sells)), SumQty(V, Eligible(V, sells, buys)))

SideBound(V, securityId) ==
    Smaller(SumQty(V, OnSide(V, securityId, Buy)), SumQty(V, OnSide(V, securityId, Sell)))

\* C9: in every reachable state and for every security,
\* getMatchingSizeForSecurity returns no more than the smaller of the summed
\* quantity of the buys that have a sell of another company and the summed
\* quantity of the sells that have a buy of another company, which is no
\* more than the smaller of the summed quantities of all buys and all sells.
C9_BoundedByEligible ==
    LET V == Resident(cache)
        AliV == Ali_Resident(pooled)
    IN  \A securityId \in Queries :
            /\ getMatchingSizeForSecurity(cache, tls, securityId).ret
                  <= EligibleBound(V, securityId)
            /\ EligibleBound(V, securityId) <= SideBound(V, securityId)
            /\ Ali_getMatchingSizeForSecurity(pooled, aliTls, securityId).ret
                  <= EligibleBound(AliV, securityId)
            /\ EligibleBound(AliV, securityId) <= SideBound(AliV, securityId)

\* A query has run and returned all the eligible quantity, which is above 0
\* and less than what the two sides hold: an order has no counterpart of
\* another company.
C9_Witness ==
    /\ last = "getMatchingSizeForSecurity"
    /\ tls.buyOrders # <<>> /\ aliTls.buyOrders # <<>>
    /\ getMatchingSizeForSecurity(cache, tls, "SecA").ret = EligibleBound(Resident(cache), "SecA")
    /\ Ali_getMatchingSizeForSecurity(pooled, aliTls, "SecA").ret
          = EligibleBound(Ali_Resident(pooled), "SecA")
    /\ 0 < EligibleBound(Resident(cache), "SecA")
    /\ EligibleBound(Resident(cache), "SecA") < SideBound(Resident(cache), "SecA")

(***************************************************************************)
(* C10  getMatchingSizeForSecurity is a pure read                          *)
(***************************************************************************)
\* C10: a call of getMatchingSizeForSecurity leaves the primary index, the
\* buckets and the stored orders, their quantities included, of both caches
\* as they were, and the same call made again right after it returns what
\* the first call returned.
C10_PureRead ==
    [][last' = "getMatchingSizeForSecurity"
        => \A securityId \in Queries :
              GetMatchingSizeForSecurity(securityId)
                => /\ cache' = cache
                   /\ pooled' = pooled
                   /\ getMatchingSizeForSecurity(cache', tls', securityId).ret
                         = getMatchingSizeForSecurity(cache, tls, securityId).ret
                   /\ Ali_getMatchingSizeForSecurity(pooled', aliTls', securityId).ret
                         = Ali_getMatchingSizeForSecurity(pooled, aliTls, securityId).ret]_vars

\* A query has run and taken quantity: in the static vectors of both caches a
\* buy is used up, while every stored order has the quantity it was given.
C10_Witness ==
    /\ last = "getMatchingSizeForSecurity"
    /\ \E k \in DOMAIN tls.buyOrders : tls.buyOrders[k].first = 0
    /\ \E k \in DOMAIN aliTls.buyOrders :
          /\ aliTls.buyOrders[k].first = 0
          /\ pooled.m_pool[aliTls.buyOrders[k].second].qty > 0
    /\ \A id \in DOMAIN cache.m_orders : cache.m_orders[id].qty > 0
    /\ Cardinality(DOMAIN cache.m_orders) = MatchOrders

(***************************************************************************)
(* C11  Queries that return 0                                              *)
(***************************************************************************)
OfSec(V, securityId) == {id \in DOMAIN V : V[id].securityId = securityId}

\* nothing can be paired: no security named, fewer than two orders, or one
\* side without orders
Unpairable(V, securityId) ==
    \/ securityId = ""
    \/ Cardinality(OfSec(V, securityId)) < 2
    \/ OnSide(V, securityId, Buy) = {}
    \/ OnSide(V, securityId, Sell) = {}

\* C11: getMatchingSizeForSecurity returns 0 for the empty securityId, for a
\* security without resident orders, for one with fewer than two resident
\* orders and for one whose resident orders are all buys or all sells,
\* whatever earlier queries left in the static vectors.
C11_ZeroWhenUnpairable ==
    LET V == Resident(cache)
        AliV == Ali_Resident(pooled)
    IN  \A securityId \in Queries :
            /\ Unpairable(V, securityId)
                  => getMatchingSizeForSecurity(cache, tls, securityId).ret = 0
            /\ Unpairable(AliV, securityId)
                  => Ali_getMatchingSizeForSecurity(pooled, aliTls, securityId).ret = 0

\* A query has run over two or more orders that are all buys, the sells of
\* the security having been cancelled: the static vectors hold the buys and
\* no sell.
C11_Witness ==
    /\ last = "getMatchingSizeForSecurity"
    /\ Cardinality(OnSide(Resident(cache), "SecA", Buy)) >= 2
    /\ OnSide(Resident(cache), "SecA", Sell) = {}
    /\ \E gone \in Dead(pooled) : gone.side = Sell
    /\ Len(tls.buyOrders) >= 2 /\ tls.sellOrders = <<>>
    /\ Len(aliTls.buyOrders) >= 2 /\ aliTls.sellOrders = <<>>

(***************************************************************************)
(* C12  cancelOrder removes exactly the order of the id                    *)
(***************************************************************************)
\* what Removed asks of a cancelOrder(orderId) that took V to W: one order
\* fewer when the id was resident, nothing touched when it was not
OrderCancelled(V, W, orderId, untouched) ==
    LET gone == {orderId} \cap DOMAIN V.orders
    IN  /\ Removed(V, W, gone)
        /\ (gone = {} => untouched)
        /\ (gone # {} => Cardinality(DOMAIN W.orders) = Cardinality(DOMAIN V.orders) - 1)

\* C12: in every reachable state a call of cancelOrder(orderId) with an id
\* that is not resident, the empty id included, leaves both caches as they
\* were; with a resident id it removes that order from the primary index,
\* from the bucket of its user and from the bucket of its security, leaves
\* every other resident order with its fields and bucket memberships, and the
\* number of resident orders is one less.
C12_CancelExact ==
    LET V == View(cache)
        AliV == Ali_View(pooled)
    IN  \A orderId \in OrderIds \cup {""} :
            /\ LET after == cancelOrder(cache, orderId)
                   W == View(after)
               IN  OrderCancelled(V, W, orderId, after = cache)
            /\ LET after == Ali_cancelOrder(pooled, orderId)
                   AliW == Ali_View(after)
               IN  OrderCancelled(AliV, AliW, orderId, after = pooled)

\* cancelOrder was the latest call; the record the pool handed out last is of
\* an order no longer resident, while an older order of the same user,
\* security and quantity is resident: only cancelOrder removes one of the two
\* and not the other.
C12_Witness ==
    /\ last = "cancelOrder"
    /\ Cardinality(DOMAIN cache.m_orders) = 1
    /\ \E id \in DOMAIN pooled.m_orders :
          LET kept == pooled.m_pool[pooled.m_orders[id]]
              gone == pooled.m_pool[Newest(pooled)]
          IN  /\ gone \in Dead(pooled)
              /\ gone.orderId # kept.orderId
              /\ gone.user = kept.user
              /\ gone.securityId = kept.securityId
              /\ gone.qty = kept.qty
              /\ id \in DOMAIN cache.m_orders /\ cache.m_orders[id] = toOrder(kept)

(***************************************************************************)
(* C13  No bucket is empty                                                 *)
(***************************************************************************)
\* V is a view: the keys of the buckets are the users and the securities of
\* the resident orders, and every bucket lists an order
KeysInUse(V) ==
    /\ DOMAIN V.userCount = {V.orders[id].user : id \in DOMAIN V.orders}
    /\ DOMAIN V.secCount = {V.orders[id].securityId : id \in DOMAIN V.orders}
    /\ \A u \in DOMAIN V.userCount : \E id \in IdUniverse : V.userCount[u][id] > 0
    /\ \A s \in DOMAIN V.secCount : \E id \in IdUniverse : V.secCount[s][id] > 0

\* C13: in every reachable state of both caches a user is a key of
\* m_ordersByUser exactly when a resident order has that user, a security is a
\* key of m_ordersBySecId exactly when a resident order has that security, and
\* no bucket is empty, also after a cancelOrdersForUser or a
\* cancelOrdersForSecIdWithMinimumQty that removed the last order of a bucket.
C13_NoEmptyBucket ==
    /\ KeysInUse(View(cache))
    /\ KeysInUse(Ali_View(pooled))
    /\ \A u \in DOMAIN cache.m_ordersByUser : cache.m_ordersByUser[u] # {}
    /\ \A s \in DOMAIN cache.m_ordersBySecId : cache.m_ordersBySecId[s] # <<>>
    /\ \A u \in DOMAIN pooled.m_ordersByUser : pooled.m_ordersByUser[u] # <<>>
    /\ \A s \in DOMAIN pooled.m_ordersBySecId : pooled.m_ordersBySecId[s] # <<>>

\* a cancellation by user or by security was the latest call; the pool keeps
\* the record of an order whose user and whose security have no bucket any
\* more, while an order of another user and security is resident
C13_Witness ==
    /\ last \in {"cancelOrdersForUser", "cancelOrdersForSecIdWithMinimumQty"}
    /\ DOMAIN cache.m_orders # {} /\ DOMAIN pooled.m_orders # {}
    /\ \E gone \in Dead(pooled) :
          /\ gone.user \notin DOMAIN cache.m_ordersByUser \cup DOMAIN pooled.m_ordersByUser
          /\ gone.securityId \notin DOMAIN cache.m_ordersBySecId \cup DOMAIN pooled.m_ordersBySecId

(***************************************************************************)
(* C14  cancelOrdersForSecIdWithMinimumQty with nothing to do              *)
(***************************************************************************)
\* C14: in every reachable state a call of
\* cancelOrdersForSecIdWithMinimumQty(securityId, minQty) with the empty
\* securityId, with minQty = 0, or with a security no resident order has
\* leaves both caches exactly as they were.
C14_CancelForSecNoOp ==
    LET V == Resident(cache)
        AliV == Ali_Resident(pooled)
    IN  \A securityId \in SecIds \cup {""}, minQty \in 0..MaxQty + 1 :
            /\ (securityId = "" \/ minQty = 0 \/ OfSec(V, securityId) = {})
                  => cancelOrdersForSecIdWithMinimumQty(cache, securityId, minQty) = cache
            /\ (securityId = "" \/ minQty = 0 \/ OfSec(AliV, securityId) = {})
                  => Ali_cancelOrdersForSecIdWithMinimumQty(pooled, securityId, minQty)
                        = pooled

\* cancelOrdersForSecIdWithMinimumQty was the latest call and nothing has
\* ever been cancelled: the pool holds the resident orders and no other
\* record, the orders are of one security, and the other security has none.
C14_Witness ==
    /\ last = "cancelOrdersForSecIdWithMinimumQty"
    /\ Dead(pooled) = {}
    /\ Cardinality(DOMAIN pooled.m_pool) = MaxPool
    /\ DOMAIN cache.m_orders = DOMAIN pooled.m_orders
    /\ Cardinality(DOMAIN cache.m_ordersBySecId) = 1
    /\ DOMAIN pooled.m_ordersBySecId = DOMAIN cache.m_ordersBySecId

(***************************************************************************)
(* C15  getAllOrders returns the resident orders                           *)
(***************************************************************************)
\* the addresses of the pool that m_orders points to: one per admitted order
\* that has not been cancelled
Live(P) == {ptr \in DOMAIN P.m_pool : \E id \in DOMAIN P.m_orders : P.m_orders[id] = ptr}

\* result lists each id of `ids` once, in that order, and nothing else
OnePerId(result, ids) ==
    /\ Len(result) = Len(ids)
    /\ \A i \in 1..Len(ids) : result[i].orderId = ids[i]
    /\ \A i, j \in 1..Len(result) : result[i].orderId = result[j].orderId => i = j

\* C15: in every reachable state and for every order in which m_orders may be
\* walked, getAllOrders of both caches returns one Order per resident id and
\* nothing else; each has the six fields the order was given with to the
\* addOrder that admitted it, which are the fields of the record the pool
\* made at that call and one of the orders offered; the length is the number
\* of records of the pool that have not been cancelled.
C15_AllOrdersExact ==
    /\ \A ids \in Enumerations(DOMAIN cache.m_orders) :
          LET result == getAllOrders(cache, ids)
          IN  /\ OnePerId(result, ids)
              /\ Len(result) = Cardinality(Live(pooled))
              /\ \A i \in 1..Len(result) :
                    /\ result[i] \in ValidOrders
                    /\ ids[i] \in DOMAIN pooled.m_orders
                    /\ InternalOrder(result[i]) = pooled.m_pool[pooled.m_orders[ids[i]]]
    /\ \A ids \in Enumerations(DOMAIN pooled.m_orders) :
          LET result == Ali_getAllOrders(pooled, ids)
          IN  /\ OnePerId(result, ids)
              /\ Len(result) = Cardinality(Live(pooled))
              /\ \A i \in 1..Len(result) :
                    /\ result[i] \in ValidOrders
                    /\ ids[i] \in DOMAIN cache.m_orders
                    /\ result[i] = cache.m_orders[ids[i]]

\* getAllOrders was the latest call; of the orders admitted so far one has
\* been cancelled and one is resident
C15_Witness ==
    /\ last = "getAllOrders"
    /\ Dead(pooled) # {}
    /\ Live(pooled) # {}
    /\ DOMAIN cache.m_orders # {}

(***************************************************************************)
(* C16  One buy against sells of other companies                           *)
(***************************************************************************)
\* the security has exactly one buy and one or more sells, none of them of
\* the company of the buy
OneBuyManySells(V, securityId) ==
    LET buys == OnSide(V, securityId, Buy)
        sells == OnSide(V, securityId, Sell)
    IN  /\ Cardinality(buys) = 1
        /\ sells # {}
        /\ \A b \in buys, s \in sells : V[b].company # V[s].company

\* C16: for a security with exactly one resident buy and one or more resident
\* sells, all of companies other than that of the buy,
\* getMatchingSizeForSecurity returns the smaller of the quantity of the buy
\* and the summed quantity of the sells; when the buy is at least as large
\* as that sum, the sum.
C16_OneBuyManySells ==
    LET V == Resident(cache)
        AliV == Ali_Resident(pooled)
    IN  \A securityId \in SecIds :
            /\ OneBuyManySells(V, securityId)
                  => getMatchingSizeForSecurity(cache, tls, securityId).ret
                        = SideBound(V, securityId)
            /\ OneBuyManySells(AliV, securityId)
                  => Ali_getMatchingSizeForSecurity(pooled, aliTls, securityId).ret
                        = SideBound(AliV, securityId)

\* A query has run over one buy and two or more sells of other companies; the
\* buy is as large as the sells together and larger than any one of them, and
\* the static vectors show every sell used up.
C16_Witness ==
    LET V == Resident(cache)
        sells == OnSide(V, "SecA", Sell)
    IN  /\ last = "getMatchingSizeForSecurity"
        /\ OneBuyManySells(V, "SecA")
        /\ OneBuyManySells(Ali_Resident(pooled), "SecA")
        /\ Cardinality(sells) >= 2
        /\ \A b \in OnSide(V, "SecA", Buy) : V[b].qty >= SumQty(V, sells)
        /\ Len(tls.sellOrders) = Cardinality(sells)
        /\ \A j \in 1..Len(tls.sellOrders) : tls.sellOrders[j].first = 0
        /\ Len(aliTls.sellOrders) = Cardinality(sells)
        /\ \A j \in 1..Len(aliTls.sellOrders) : aliTls.sellOrders[j].first = 0

(***************************************************************************)
(* C17  The total and the order of ties                                    *)
(***************************************************************************)
\* C17: for a fixed set of resident orders the value returned by
\* getMatchingSizeForSecurity is the same however the sort orders the orders
\* of equal quantity and in whatever order they were added: the two caches,
\* which hold the same orders and break ties by company name and by address,
\* return the same value, and every descending order of the buys and of the
\* sells gives the greedy procedure the same total.
C17_TieOrderImmaterial ==
    LET V == Resident(cache)
    IN  \A securityId \in Queries :
            /\ Ali_Resident(pooled) = V
                  => getMatchingSizeForSecurity(cache, tls, securityId).ret
                        = Ali_getMatchingSizeForSecurity(pooled, aliTls, securityId).ret
            /\ Cardinality(GreedyTotals(V, securityId)) = 1

(***************************************************************************)
(* C18  The life of an order                                               *)
(***************************************************************************)
Cancels == {"cancelOrder", "cancelOrdersForUser", "cancelOrdersForSecIdWithMinimumQty"}

\* one call `op` took the resident orders V to W
Lifecycle(V, W, op) ==
    LET entered == DOMAIN W \ DOMAIN V
        left == DOMAIN V \ DOMAIN W
    IN  /\ \A id \in DOMAIN V \cap DOMAIN W : W[id] = V[id]
        /\ entered # {}
              => /\ op = "addOrder"
                 /\ Cardinality(entered) = 1
                 /\ \A id \in entered : W[id] \in ValidOrders /\ W[id].orderId = id
        /\ left # {}
              => \/ op = "cancelOrder" /\ Cardinality(left) = 1
                 \/ /\ op = "cancelOrdersForUser"
                    /\ \E user \in Users : left = {id \in DOMAIN V : V[id].user = user}
                 \/ /\ op = "cancelOrdersForSecIdWithMinimumQty"
                    /\ \E securityId \in SecIds, minQty \in 1..MaxQty :
                          left = {id \in OfSec(V, securityId) : V[id].qty >= minQty}
        /\ op = "addOrder" => left = {}
        /\ op \in Cancels => entered = {}

\* C18: in both caches an order id becomes resident only by an addOrder, which
\* admits that one order and removes none; it stops being resident only by a
\* cancelOrder, which removes one id, by a cancelOrdersForUser, which removes
\* the orders of one user, its own, or by a cancelOrdersForSecIdWithMinimumQty,
\* which removes the orders of one security, its own, that have some quantity
\* minQty > 0 or more, minQty being no more than its quantity; no cancel adds
\* an order, and from the call that admits an order to the call that removes
\* it none of its six fields changes.
C18_Lifecycle ==
    [][/\ Lifecycle(Resident(cache), Resident(cache'), last')
       /\ Lifecycle(Ali_Resident(pooled), Ali_Resident(pooled'), last')]_vars

\* An addOrder was the latest call and the order it admitted is resident,
\* under an id that an order cancelled earlier had: the pool keeps the record
\* of that order.
C18_Witness ==
    /\ last = "addOrder"
    /\ pooled.m_pool # <<>>
    /\ LET newest == pooled.m_pool[Newest(pooled)]
       IN  /\ newest.orderId \in DOMAIN pooled.m_orders
           /\ pooled.m_orders[newest.orderId] = Newest(pooled)
           /\ newest.orderId \in DOMAIN cache.m_orders
           /\ \E gone \in Dead(pooled) : gone.orderId = newest.orderId

(***************************************************************************)
(* C19  Every call returns, and a rejected call leaves no trace            *)
(***************************************************************************)
\* every resident id is listed by the bucket of its user and of its security,
\* and the buckets list resident ids only
Sound(S) ==
    /\ \A id \in DOMAIN S.m_orders :
          LET order == S.m_orders[id]
          IN  /\ order.user \in DOMAIN S.m_ordersByUser
              /\ id \in S.m_ordersByUser[order.user]
              /\ order.securityId \in DOMAIN S.m_ordersBySecId
              /\ id \in Range(S.m_ordersBySecId[order.securityId])
    /\ \A u \in DOMAIN S.m_ordersByUser : S.m_ordersByUser[u] \subseteq DOMAIN S.m_orders
    /\ \A s \in DOMAIN S.m_ordersBySecId : Range(S.m_ordersBySecId[s]) \subseteq DOMAIN S.m_orders

\* no index holds a null pointer or a pointer to no record, and the buckets
\* hold the pointers of m_orders
Ali_Sound(P) ==
    /\ \A id \in DOMAIN P.m_orders : P.m_orders[id] \in DOMAIN P.m_pool
    /\ BucketPtrs(P) = {P.m_orders[id] : id \in DOMAIN P.m_orders}

\* the calls the caches turn away
RejectedAdd(V, order) == Invalid(order) \/ order.orderId \in DOMAIN V
RejectedCancel(V, orderId) == orderId \notin DOMAIN V
RejectedUser(V, user) == \A id \in DOMAIN V : V[id].user # user
RejectedSec(V, securityId, minQty) ==
    securityId = "" \/ minQty = 0 \/ OfSec(V, securityId) = {}

\* C19: in every reachable state each of the six operations of both caches,
\* given any input, valid or not, yields a result and sound indices (no id or
\* pointer that leads nowhere); and a call that is turned away (an addOrder of
\* an invalid order or of a resident id, a cancelOrder of an id not resident,
\* a cancelOrdersForUser of a user without orders, a
\* cancelOrdersForSecIdWithMinimumQty with an empty security, minQty = 0 or a
\* security without orders, a query for a security with nothing to pair)
\* leaves the cache as it was, so that later calls behave as if it had not
\* been made: a query made after such a query returns what it would have
\* returned without it.
C19_TotalAndTraceless ==
    LET V == Resident(cache)
        AliV == Ali_Resident(pooled)
    IN  /\ Sound(cache) /\ Ali_Sound(pooled)
        /\ \A order \in OrderInputs :
              /\ LET after == addOrder(cache, order)
                 IN  IF RejectedAdd(V, order) THEN after = cache ELSE Sound(after)
              /\ IF RejectedAdd(AliV, order)
                 THEN Ali_addOrder(pooled, order, NullPtr) = pooled
                 ELSE \A ptr \in FreshAddrs(pooled) :
                         Ali_Sound(Ali_addOrder(pooled, order, ptr))
        /\ \A orderId \in OrderIds \cup {""} :
              /\ LET after == cancelOrder(cache, orderId)
                 IN  IF RejectedCancel(V, orderId) THEN after = cache ELSE Sound(after)
              /\ LET after == Ali_cancelOrder(pooled, orderId)
                 IN  IF RejectedCancel(AliV, orderId) THEN after = pooled
                     ELSE Ali_Sound(after)
        /\ \A user \in Users \cup {""} :
              /\ \A orderIds \in Enumerations(IF user \in DOMAIN cache.m_ordersByUser
                                               THEN cache.m_ordersByUser[user] ELSE {}) :
                    LET after == cancelOrdersForUser(cache, user, orderIds)
                    IN  IF RejectedUser(V, user) THEN after = cache ELSE Sound(after)
              /\ LET after == Ali_cancelOrdersForUser(pooled, user)
                 IN  IF RejectedUser(AliV, user) THEN after = pooled ELSE Ali_Sound(after)
        /\ \A securityId \in SecIds \cup {""}, minQty \in 0..MaxQty + 1 :
              /\ LET after == cancelOrdersForSecIdWithMinimumQty(cache, securityId, minQty)
                 IN  IF RejectedSec(V, securityId, minQty) THEN after = cache
                     ELSE Sound(after)
              /\ LET after == Ali_cancelOrdersForSecIdWithMinimumQty(pooled, securityId,
                                                                     minQty)
                 IN  IF RejectedSec(AliV, securityId, minQty) THEN after = pooled
                     ELSE Ali_Sound(after)
        /\ \A securityId \in Queries :
              /\ LET r == getMatchingSizeForSecurity(cache, tls, securityId)
                 IN  /\ r.ret \in 0..UIntWrap - 1
                     /\ Unpairable(V, securityId)
                           => \A later \in Queries :
                                 getMatchingSizeForSecurity(cache, r.scratch, later).ret
                                    = getMatchingSizeForSecurity(cache, tls, later).ret
              /\ LET r == Ali_getMatchingSizeForSecurity(pooled, aliTls, securityId)
                 IN  /\ r.ret \in 0..UIntWrap - 1
                     /\ Unpairable(AliV, securityId)
                           => \A later \in Queries :
                                 Ali_getMatchingSizeForSecurity(pooled, r.scratch, later).ret
                                    = Ali_getMatchingSizeForSecurity(pooled, aliTls, later).ret
        /\ \A ids \in Enumerations(DOMAIN cache.m_orders) :
              Len(getAllOrders(cache, ids)) = Len(ids)
        /\ \A ids \in Enumerations(DOMAIN pooled.m_orders) :
              Len(Ali_getAllOrders(pooled, ids)) = Len(ids)

\* cancelOrder was the latest call and it was turned away: orders are
\* resident and nothing has ever been cancelled, the pool holding no record
\* but those of the resident orders.
C19_Witness ==
    /\ last = "cancelOrder"
    /\ DOMAIN cache.m_orders # {}
    /\ DOMAIN pooled.m_orders = DOMAIN cache.m_orders
    /\ Dead(pooled) = {}
    /\ Cardinality(DOMAIN pooled.m_pool) = Cardinality(DOMAIN pooled.m_orders)

(***************************************************************************)
(* C20  addOrder adds exactly the order                                    *)
(***************************************************************************)
\* W is V with `order` added to the primary index, once to the bucket of its
\* user and once to the bucket of its security, and every other order as it
\* was
Added(V, W, order) ==
    LET id == order.orderId
    IN  /\ DOMAIN W.orders = DOMAIN V.orders \cup {id}
        /\ W.orders[id] = order
        /\ Memberships(W, id) = [users |-> [u \in {order.user} |-> 1],
                                 secs |-> [s \in {order.securityId} |-> 1]]
        /\ DOMAIN W.userCount = DOMAIN V.userCount \cup {order.user}
        /\ DOMAIN W.secCount = DOMAIN V.secCount \cup {order.securityId}
        /\ \A other \in DOMAIN V.orders :
              /\ W.orders[other] = V.orders[other]
              /\ Memberships(W, other) = Memberships(V, other)

\* C20: in every reachable state an addOrder of a valid order whose id is not
\* resident makes that order resident with its six fields, lists it once in
\* the bucket of its user and once in the bucket of its security, making the
\* bucket when the key is new, and leaves every other resident order, its
\* fields and its bucket memberships as they were; in the pooled cache this
\* holds wherever the pool places the record.
C20_AddExact ==
    LET V == View(cache)
        AliV == Ali_View(pooled)
    IN  \A order \in ValidOrders :
            /\ order.orderId \notin DOMAIN V.orders
                  => Added(V, View(addOrder(cache, order)), order)
            /\ order.orderId \notin DOMAIN AliV.orders
                  => \A ptr \in FreshAddrs(pooled) :
                        Added(AliV, Ali_View(Ali_addOrder(pooled, order, ptr)), order)

\* An addOrder was the latest call and the order it admitted is resident;
\* an older resident order has the same user and another security, so that
\* the call added to a bucket that was there and made a new one.
C20_Witness ==
    /\ last = "addOrder"
    /\ pooled.m_pool # <<>>
    /\ LET newest == pooled.m_pool[Newest(pooled)]
       IN  /\ newest.orderId \in DOMAIN pooled.m_orders
           /\ pooled.m_orders[newest.orderId] = Newest(pooled)
           /\ newest.orderId \in DOMAIN cache.m_orders
           /\ Len(pooled.m_ordersBySecId[newest.securityId]) = 1
           /\ \E id \in DOMAIN cache.m_orders \cap DOMAIN pooled.m_orders :
                 /\ id # newest.orderId
                 /\ cache.m_orders[id].user = newest.user
                 /\ cache.m_orders[id].securityId # newest.securityId

(***************************************************************************)
(* C21  The total that can match                                           *)
(***************************************************************************)
RECURSIVE SumOver(_, _)
SumOver(f, keys) ==
    IF keys = {} THEN 0
    ELSE LET k == CHOOSE x \in keys : TRUE
         IN  f[k] + SumOver(f, keys \ {k})

\* the ways to give quantity of the buys to the sells of the security: no
\* pair of one company, no order used beyond its quantity
Assignments(V, securityId) ==
    LET buys == OnSide(V, securityId, Buy)
        sells == OnSide(V, securityId, Sell)
    IN  {f \in [buys \X sells -> 0..MaxQty] :
            /\ \A b \in buys, s \in sells : V[b].company = V[s].company => f[<<b, s>>] = 0
            /\ \A b \in buys : SumOver(f, {b} \X sells) <= V[b].qty
            /\ \A s \in sells : SumOver(f, buys \X {s}) <= V[s].qty}

\* the largest total of an assignment
CanMatch(V, securityId) ==
    LET totals == {SumOver(f, DOMAIN f) : f \in Assignments(V, securityId)}
    IN  CHOOSE t \in totals : \A u \in totals : u <= t

\* C21: getMatchingSizeForSecurity returns the total quantity that can match
\* for the security: the largest total of any assignment of quantity of its
\* buys to its sells that pairs no buy with a sell of the same company and
\* uses no order beyond its quantity.
C21_ReturnsMaximum ==
    LET V == Resident(cache)
        AliV == Ali_Resident(pooled)
    IN  \A securityId \in SecIds :
            /\ getMatchingSizeForSecurity(cache, tls, securityId).ret = CanMatch(V, securityId)
            /\ Ali_getMatchingSizeForSecurity(pooled, aliTls, securityId).ret
                  = CanMatch(AliV, securityId)

(***************************************************************************)
(* C22  The two implementations seen from outside                          *)
(***************************************************************************)
\* the orders getAllOrders returns, as a set
AllOrders(V) == {V[id] : id \in DOMAIN V}

\* C22: the cache of OrderCache.cpp and the pooled cache of
\* AliMajidi/OrderCache.cpp, started empty and given the same calls, return
\* the same set of orders from getAllOrders and the same value from every
\* getMatchingSizeForSecurity.
C22_SameAnswers ==
    /\ AllOrders(Resident(cache)) = AllOrders(Ali_Resident(pooled))
    /\ \A ids \in Enumerations(DOMAIN cache.m_orders) :
          Range(getAllOrders(cache, ids)) = Range(Ali_getAllOrders(pooled, ids))
    /\ \A securityId \in Queries :
          getMatchingSizeForSecurity(cache, tls, securityId).ret
             = Ali_getMatchingSizeForSecurity(pooled, aliTls, securityId).ret

(***************************************************************************)
(* C23  cancelOrdersForUser and cancelOrder                                *)
(***************************************************************************)
\* cancelOrder of the pooled cache called for each id of `orderIds` in turn
RECURSIVE Ali_CancelIds(_, _)
Ali_CancelIds(P, orderIds) ==
    IF orderIds = <<>> THEN P
    ELSE Ali_CancelIds(Ali_cancelOrder(P, Head(orderIds)), Tail(orderIds))

\* C23: in every reachable state the cache that cancelOrdersForUser(user)
\* leaves, however it walks the bucket, equals the cache left by calling
\* cancelOrder once for each resident order id of the user, in any order:
\* the same primary index and the same buckets, with the emptied user and
\* security buckets removed.
C23_UserCancelIsSingleCancels ==
    LET V == Resident(cache)
        AliV == Ali_Resident(pooled)
    IN  \A user \in Users :
            /\ LET owned == {id \in DOMAIN V : V[id].user = user}
                   bucket == IF user \in DOMAIN cache.m_ordersByUser
                             THEN cache.m_ordersByUser[user] ELSE {}
               IN  \A walk \in Enumerations(bucket), orderIds \in Enumerations(owned) :
                      cancelOrdersForUser(cache, user, walk) = CancelEach(cache, orderIds)
            /\ LET owned == {id \in DOMAIN AliV : AliV[id].user = user}
                   after == Ali_cancelOrdersForUser(pooled, user)
               IN  \A orderIds \in Enumerations(owned) :
                      after = Ali_CancelIds(pooled, orderIds)

\* cancelOrdersForUser was the latest call; the orders the pool has records
\* of were all of one user and of more than one security, and none is
\* resident: no key is left in any index.
C23_Witness ==
    /\ last = "cancelOrdersForUser"
    /\ cache = EmptyCache
    /\ DOMAIN pooled.m_orders = {} /\ pooled.m_ordersByUser = EmptyMap
    /\ pooled.m_ordersBySecId = EmptyMap
    /\ Cardinality({gone.user : gone \in Dead(pooled)}) = 1
    /\ Cardinality({gone.securityId : gone \in Dead(pooled)}) > 1

(***************************************************************************)
(* C24  The orders to cancel are collected before any is cancelled         *)
(***************************************************************************)
\* `targets` lists, each once, the ids `selected` in the cache S, the loop
\* of cancelOrder over it finds every target resident when its turn comes,
\* and `after` is what the loop leaves: S without the selected orders
CollectedThenCancelled(S, targets, selected, after) ==
    /\ Range(targets) = selected
    /\ Len(targets) = Cardinality(selected)
    /\ \A k \in 1..Len(targets) :
          targets[k] \in DOMAIN CancelEach(S, SubSeq(targets, 1, k - 1)).m_orders
    /\ after = CancelEach(S, targets)
    /\ DOMAIN S.m_orders \ DOMAIN after.m_orders = selected

\* the same for the pooled cache, `targets` being pointers
Ali_CollectedThenCancelled(P, targets, selected, after) ==
    /\ {P.m_pool[ptr].orderId : ptr \in Range(targets)} = selected
    /\ Len(targets) = Cardinality(selected)
    /\ \A k \in 1..Len(targets) :
          P.m_pool[targets[k]].orderId
             \in DOMAIN Ali_CancelEach(P, SubSeq(targets, 1, k - 1)).m_orders
    /\ after = Ali_CancelEach(P, targets)
    /\ DOMAIN P.m_orders \ DOMAIN after.m_orders = selected

\* C24: cancelOrdersForUser and cancelOrdersForSecIdWithMinimumQty copy the
\* whole list of their targets from the bucket as it is when they are called
\* and cancel afterwards: the list holds, each once, the orders that meet the
\* selection in the state before the call; each target is still resident when
\* the loop comes to it, the cancellations before it having changed the
\* bucket but not the list; and the orders removed are exactly those.
C24_CollectThenCancel ==
    LET V == Resident(cache)
        AliV == Ali_Resident(pooled)
    IN  /\ \A securityId \in SecIds, minQty \in 1..MaxQty :
              /\ CollectedThenCancelled(
                    cache, CollectIdsToCancel(cache, securityId, minQty),
                    {id \in OfSec(V, securityId) : V[id].qty >= minQty},
                    cancelOrdersForSecIdWithMinimumQty(cache, securityId, minQty))
              /\ Ali_CollectedThenCancelled(
                    pooled, Ali_CollectPtrsToCancel(pooled, securityId, minQty),
                    {id \in OfSec(AliV, securityId) : AliV[id].qty >= minQty},
                    Ali_cancelOrdersForSecIdWithMinimumQty(pooled, securityId, minQty))
        /\ \A user \in Users :
              /\ \A orderIds \in Enumerations(IF user \in DOMAIN cache.m_ordersByUser
                                               THEN cache.m_ordersByUser[user] ELSE {}) :
                    CollectedThenCancelled(
                       cache, orderIds, {id \in DOMAIN V : V[id].user = user},
                       cancelOrdersForUser(cache, user, orderIds))
              /\ Ali_CollectedThenCancelled(
                    pooled,
                    IF user \in DOMAIN pooled.m_ordersByUser
                    THEN pooled.m_ordersByUser[user] ELSE <<>>,
                    {id \in DOMAIN AliV : AliV[id].user = user},
                    Ali_cancelOrdersForUser(pooled, user))

\* cancelOrdersForSecIdWithMinimumQty was the latest call; two or more orders
\* of one security and one quantity, which stood together in its bucket, are
\* no longer resident.
C24_Witness ==
    /\ last = "cancelOrdersForSecIdWithMinimumQty"
    /\ \E a, b \in DOMAIN pooled.m_pool :
          /\ a # b
          /\ pooled.m_pool[a] \in Dead(pooled) /\ pooled.m_pool[b] \in Dead(pooled)
          /\ pooled.m_pool[a].securityId = pooled.m_pool[b].securityId
          /\ pooled.m_pool[a].qty = pooled.m_pool[b].qty
          /\ pooled.m_pool[a].orderId # pooled.m_pool[b].orderId
          /\ pooled.m_pool[a].orderId \notin DOMAIN cache.m_orders
          /\ pooled.m_pool[b].orderId \notin DOMAIN cache.m_orders

(***************************************************************************)
(* C25  Quantities during one query                                        *)
(***************************************************************************)
\* what the first n matches took from buy x (asBuy) or from sell x
RECURSIVE Taken(_, _, _, _)
Taken(matches, n, asBuy, x) ==
    IF n = 0 THEN 0
    ELSE Taken(matches, n - 1, asBuy, x)
         + (IF (IF asBuy THEN matches[n].buy ELSE matches[n].sell) = x
            THEN matches[n].matchQty ELSE 0)

RECURSIVE SumFirst(_)
SumFirst(pairs) == IF pairs = <<>> THEN 0 ELSE Head(pairs).first + SumFirst(Tail(pairs))

\* r is a run of the loops over the orders of securityId resident in V:
\* sortedBuys and sortedSells as the loops found them, buyOrders and
\* sellOrders as they left them, matches what they did in between
WithinQuantities(V, securityId, r) ==
    LET steps == 0..Len(r.matches)
    IN  /\ Len(r.sortedBuys) = Cardinality(OnSide(V, securityId, Buy))
        /\ Len(r.sortedSells) = Cardinality(OnSide(V, securityId, Sell))
        /\ SumFirst(r.sortedBuys) = SumQty(V, OnSide(V, securityId, Buy))
        /\ SumFirst(r.sortedSells) = SumQty(V, OnSide(V, securityId, Sell))
        /\ DOMAIN r.buyOrders = DOMAIN r.sortedBuys
        /\ DOMAIN r.sellOrders = DOMAIN r.sortedSells
        /\ \A i \in DOMAIN r.sortedBuys :
              /\ \A n \in steps : Taken(r.matches, n, TRUE, i) \in 0..r.sortedBuys[i].first
              /\ r.buyOrders[i].first
                    = r.sortedBuys[i].first - Taken(r.matches, Len(r.matches), TRUE, i)
        /\ \A j \in DOMAIN r.sortedSells :
              /\ \A n \in steps : Taken(r.matches, n, FALSE, j) \in 0..r.sortedSells[j].first
              /\ r.sellOrders[j].first
                    = r.sortedSells[j].first - Taken(r.matches, Len(r.matches), FALSE, j)
        /\ \A k, l \in DOMAIN r.matches :
              (r.matches[k].buy = r.matches[l].buy /\ r.matches[k].sell = r.matches[l].sell)
                 => k = l

\* C25: during one call of getMatchingSizeForSecurity, after every match, the
\* quantity left of every buy and of every sell of the security is between 0
\* and the quantity of the resident order; what the matches take from one
\* order is in total no more than its quantity; what the loops leave in the
\* vectors is the quantity less everything taken, so that a later buy meets a
\* sell as earlier buys left it; and no buy is matched with the same sell
\* twice.
C25_WithinQuantities ==
    /\ \A securityId \in Walked(cache) :
          WithinQuantities(Resident(cache), securityId,
                           MatchingRun(cache, tls, securityId))
    /\ \A securityId \in Walked(pooled) :
          WithinQuantities(Ali_Resident(pooled), securityId,
                           Ali_MatchingRun(pooled, aliTls, securityId))

\* A query has run in which two buys took from one sell: the first left a
\* part of it that the second found.
C25_Witness ==
    /\ last = "getMatchingSizeForSecurity"
    /\ tls.buyOrders # <<>> /\ aliTls.buyOrders # <<>>
    /\ "SecA" \in Walked(cache) /\ "SecA" \in Walked(pooled)
    /\ LET r == MatchingRun(cache, tls, "SecA")
           a == Ali_MatchingRun(pooled, aliTls, "SecA")
       IN  /\ \E k, l \in DOMAIN r.matches :
                 r.matches[k].sell = r.matches[l].sell /\ r.matches[k].buy # r.matches[l].buy
           /\ \E k, l \in DOMAIN a.matches :
                 a.matches[k].sell = a.matches[l].sell /\ a.matches[k].buy # a.matches[l].buy

(***************************************************************************)
(* C27  Calling a mutator twice                                            *)
(***************************************************************************)
\* C27: in every reachable state of both caches, cancelOrder(orderId),
\* cancelOrdersForUser(user), cancelOrdersForSecIdWithMinimumQty(securityId,
\* minQty) or addOrder(order) called twice in a row with the same argument
\* leaves the cache that one call leaves; the pooled cache makes no record for
\* the second addOrder.
C27_Idempotent ==
    /\ \A orderId \in OrderIds \cup {""} :
          /\ LET once == cancelOrder(cache, orderId)
             IN  cancelOrder(once, orderId) = once
          /\ LET once == Ali_cancelOrder(pooled, orderId)
             IN  Ali_cancelOrder(once, orderId) = once
    /\ \A user \in Users \cup {""} :
          /\ \A orderIds \in Enumerations(IF user \in DOMAIN cache.m_ordersByUser
                                           THEN cache.m_ordersByUser[user] ELSE {}) :
                LET once == cancelOrdersForUser(cache, user, orderIds)
                IN  /\ user \notin DOMAIN once.m_ordersByUser
                    /\ cancelOrdersForUser(once, user, <<>>) = once
          /\ LET once == Ali_cancelOrdersForUser(pooled, user)
             IN  Ali_cancelOrdersForUser(once, user) = once
    /\ \A securityId \in SecIds \cup {""}, minQty \in 0..MaxQty + 1 :
          /\ LET once == cancelOrdersForSecIdWithMinimumQty(cache, securityId, minQty)
             IN  cancelOrdersForSecIdWithMinimumQty(once, securityId, minQty) = once
          /\ LET once == Ali_cancelOrdersForSecIdWithMinimumQty(pooled, securityId, minQty)
             IN  Ali_cancelOrdersForSecIdWithMinimumQty(once, securityId, minQty) = once
    /\ \A order \in OrderInputs :
          /\ LET once == addOrder(cache, order)
             IN  addOrder(once, order) = once
          /\ \A ptr \in IF Ali_Rejects(pooled, order) THEN {NullPtr} ELSE FreshAddrs(pooled) :
                LET once == Ali_addOrder(pooled, order, ptr)
                IN  /\ Ali_Rejects(once, order)
                    /\ Ali_addOrder(once, order, NullPtr) = once

\* cancelOrder was the latest call; the one order ever admitted has been
\* cancelled and both caches are empty, as after cancelling it once or
\* twice.
C27_Witness ==
    /\ last = "cancelOrder"
    /\ cache = EmptyCache
    /\ Cardinality(DOMAIN pooled.m_pool) = 1
    /\ Cardinality(Dead(pooled)) = 1
    /\ pooled.m_orders = EmptyMap /\ pooled.m_ordersByUser = EmptyMap
    /\ pooled.m_ordersBySecId = EmptyMap

(***************************************************************************)
(* C28  The accumulator and the range of unsigned int                      *)
(***************************************************************************)
RECURSIVE SumMatched(_)
SumMatched(matches) ==
    IF matches = <<>> THEN 0 ELSE Head(matches).matchQty + SumMatched(Tail(matches))

\* C28: the value getMatchingSizeForSecurity returns is the sum of the
\* amounts it matched, as a number: totalMatched never wraps around, whatever
\* quantities of the range of unsigned int the resident orders have.
C28_NoWrap ==
    /\ \A securityId \in Walked(cache) :
          LET r == MatchingRun(cache, tls, securityId)
          IN  r.totalMatched = SumMatched(r.matches)
    /\ \A securityId \in Walked(pooled) :
          LET r == Ali_MatchingRun(pooled, aliTls, securityId)
          IN  r.totalMatched = SumMatched(r.matches)

(***************************************************************************)
(* C29  Nothing is left to pair when the loops end                         *)
(***************************************************************************)
\* C29: when the loops of getMatchingSizeForSecurity end, no buy and sell of
\* the security that are of different companies both have quantity left.
C29_NothingLeftToPair ==
    /\ \A securityId \in Walked(cache) :
          LET r == MatchingRun(cache, tls, securityId)
          IN  \A i \in DOMAIN r.buyOrders, j \in DOMAIN r.sellOrders :
                  r.buyOrders[i].second # r.sellOrders[j].second
                     => (r.buyOrders[i].first = 0 \/ r.sellOrders[j].first = 0)
    /\ \A securityId \in Walked(pooled) :
          LET r == Ali_MatchingRun(pooled, aliTls, securityId)
          IN  \A i \in DOMAIN r.buyOrders, j \in DOMAIN r.sellOrders :
                  pooled.m_pool[r.buyOrders[i].second].company
                        # pooled.m_pool[r.sellOrders[j].second].company
                     => (r.buyOrders[i].first = 0 \/ r.sellOrders[j].first = 0)

\* A query has run that left quantity on both sides, a buy and a sell of one
\* company, after matching other orders.
C29_Witness ==
    /\ last = "getMatchingSizeForSecurity"
    /\ \E i \in DOMAIN tls.buyOrders, j \in DOMAIN tls.sellOrders :
          /\ tls.buyOrders[i].first > 0 /\ tls.sellOrders[j].first > 0
          /\ tls.buyOrders[i].second = tls.sellOrders[j].second
    /\ \E i \in DOMAIN aliTls.buyOrders, j \in DOMAIN aliTls.sellOrders :
          aliTls.buyOrders[i].first > 0 /\ aliTls.sellOrders[j].first > 0
    /\ \E i \in DOMAIN tls.buyOrders : tls.buyOrders[i].first = 0
    /\ \E i \in DOMAIN aliTls.buyOrders : aliTls.buyOrders[i].first = 0

(***************************************************************************)
(* C30  An id is free again once its order is cancelled                    *)
(***************************************************************************)
\* the caches each cancellation that removes the resident order orderId
\* can leave
Cancelled(S, orderId) ==
    LET order == S.m_orders[orderId]
    IN  {cancelOrder(S, orderId)}
        \cup {cancelOrdersForUser(S, order.user, orderIds) :
                 orderIds \in Enumerations(S.m_ordersByUser[order.user])}
        \cup {cancelOrdersForSecIdWithMinimumQty(S, order.securityId, minQty) :
                 minQty \in 1..order.qty}

Ali_Cancelled(P, orderId) ==
    LET io == P.m_pool[P.m_orders[orderId]]
    IN  {Ali_cancelOrder(P, orderId), Ali_cancelOrdersForUser(P, io.user)}
        \cup {Ali_cancelOrdersForSecIdWithMinimumQty(P, io.securityId, minQty) :
                 minQty \in 1..io.qty}

\* W holds `order` under its id and answers for it alone: V are the resident
\* orders the cancellation left, `all` what getAllOrders returns and total
\* what getMatchingSizeForSecurity returns for each security
AnswersForNew(V, all, total, order) ==
    LET expected == Put(V, order.orderId, order)
    IN  /\ all = AllOrders(expected)
        /\ \A securityId \in SecIds : total[securityId] \in GreedyTotals(expected, securityId)

\* C30: in every state, for every resident order and each of cancelOrder,
\* cancelOrdersForUser and cancelOrdersForSecIdWithMinimumQty that removes it,
\* an addOrder after the cancellation of any valid order with the same id,
\* whatever its user, security, side, quantity and company, is admitted: the
\* order is resident with its own six fields and listed once in the bucket
\* of its own user and once in that of its own security and in no other,
\* getAllOrders returns the orders the cancellation left and the new one,
\* and getMatchingSizeForSecurity returns for every security a greedy total
\* of those orders; in the pooled cache the record of the cancelled order is
\* still in the pool, unchanged, and neither m_orders nor any bucket points
\* to it.
C30_IdFreeAgain ==
    /\ \A orderId \in DOMAIN cache.m_orders :
          \A C \in Cancelled(cache, orderId) :
              LET V == View(C)
              IN  \A order \in {o \in ValidOrders : o.orderId = orderId} :
                      LET W == addOrder(C, order)
                          total == [s \in SecIds |-> getMatchingSizeForSecurity(W, tls, s).ret]
                      IN  /\ Added(V, View(W), order)
                          /\ \A ids \in Enumerations(DOMAIN W.m_orders) :
                                AnswersForNew(V.orders, Range(getAllOrders(W, ids)), total,
                                              order)
    /\ \A orderId \in DOMAIN pooled.m_orders :
          LET old == pooled.m_orders[orderId]
          IN  \A C \in Ali_Cancelled(pooled, orderId) :
                  LET V == Ali_View(C)
                  IN  \A order \in {o \in ValidOrders : o.orderId = orderId} :
                          LET W == Ali_addOrder(C, order, Cardinality(DOMAIN C.m_pool) + 1)
                              total == [s \in SecIds |->
                                           Ali_getMatchingSizeForSecurity(W, aliTls, s).ret]
                          IN  /\ Added(V, Ali_View(W), order)
                              /\ \A ids \in Enumerations(DOMAIN W.m_orders) :
                                    AnswersForNew(V.orders, Range(Ali_getAllOrders(W, ids)),
                                                  total, order)
                              /\ old \in DOMAIN W.m_pool
                              /\ W.m_pool[old] = pooled.m_pool[old]
                              /\ old \notin BucketPtrs(W)
                              /\ \A id \in DOMAIN W.m_orders : W.m_orders[id] # old

\* An addOrder was the latest call and the order it admitted is resident
\* under the id of a cancelled order of another user and another company,
\* whose record the pool keeps; an order of the other side and another
\* company is resident for the security of the new one, so that the total
\* for it is above 0.
C30_Witness ==
    /\ last = "addOrder"
    /\ pooled.m_pool # <<>>
    /\ LET newest == pooled.m_pool[Newest(pooled)]
       IN  /\ newest.orderId \in DOMAIN pooled.m_orders
           /\ pooled.m_orders[newest.orderId] = Newest(pooled)
           /\ newest.orderId \in DOMAIN cache.m_orders
           /\ cache.m_orders[newest.orderId] = toOrder(newest)
           /\ \E gone \in Dead(pooled) :
                 /\ gone.orderId = newest.orderId
                 /\ gone.user # newest.user
                 /\ gone.company # newest.company
           /\ getMatchingSizeForSecurity(cache, tls, newest.securityId).ret > 0
           /\ Ali_getMatchingSizeForSecurity(pooled, aliTls, newest.securityId).ret > 0

(***************************************************************************)
(* C26  Calls that interleave                                              *)
(***************************************************************************)
\* C26: when addOrder, cancelOrder and cancelOrdersForUser calls of two
\* callers interleave between their index updates, the primary index, the
\* user buckets and the security buckets of a cache disagree at a moment at
\* which no call is in progress on it only if two calls have been in progress
\* on it at once, so that with every call made under one exclusion for the
\* whole cache the three views agree whenever a call begins or returns; and
\* while a call that never ran beside another is between two of its updates
\* the views disagree, which a call that begins then finds.
C26_AgreeUnlessInterleaved ==
    LET agree == [store \in {"cache", "pooled"} |->
                     IF store = "cache" THEN ViewsAgree(View(cache))
                     ELSE ViewsAgree(Ali_View(pooled))]
    IN  \A store \in {"cache", "pooled"} :
            /\ (Within(store) = {} /\ ~agree[store]) => store \in overlapped
            /\ (Within(store) # {} /\ store \notin overlapped) => ~agree[store]

\* Two calls on the cache of OrderCache.cpp have interleaved and returned,
\* and its views disagree: an order is listed by a bucket and is not in the
\* primary index.
C26_Witness ==
    /\ Within("cache") = {}
    /\ "cache" \in overlapped
    /\ ~ViewsAgree(View(cache))
    /\ \E user \in DOMAIN cache.m_ordersByUser :
          cache.m_ordersByUser[user] \ DOMAIN cache.m_orders # {}

(***************************************************************************)
(* C31  The answer for a security and the other securities                 *)
(***************************************************************************)
\* the caches one call that inserts or cancels orders of other securities
\* than securityId only can make of S
OtherSecurityCalls(S, securityId) ==
    LET others == {id \in DOMAIN S.m_orders : S.m_orders[id].securityId # securityId}
        users == {user \in DOMAIN S.m_ordersByUser : S.m_ordersByUser[user] \subseteq others}
    IN  {addOrder(S, order) :
            order \in {o \in ValidOrders \cup SpareOrders : o.securityId # securityId}}
        \cup {cancelOrder(S, orderId) : orderId \in others}
        \cup UNION {{cancelOrdersForUser(S, user, orderIds) :
                        orderIds \in Enumerations(S.m_ordersByUser[user])} : user \in users}
        \cup {cancelOrdersForSecIdWithMinimumQty(S, other, minQty) :
                 other \in SecIds \ {securityId}, minQty \in 1..MaxQty}

Ali_OtherSecurityCalls(P, securityId) ==
    LET others == {id \in DOMAIN P.m_orders :
                      P.m_pool[P.m_orders[id]].securityId # securityId}
        users == {user \in DOMAIN P.m_ordersByUser :
                     \A k \in DOMAIN P.m_ordersByUser[user] :
                         P.m_pool[P.m_ordersByUser[user][k]].securityId # securityId}
    IN  {Ali_addOrder(P, order, Cardinality(DOMAIN P.m_pool) + 1) :
            order \in {o \in ValidOrders \cup SpareOrders : o.securityId # securityId}}
        \cup {Ali_cancelOrder(P, orderId) : orderId \in others}
        \cup {Ali_cancelOrdersForUser(P, user) : user \in users}
        \cup {Ali_cancelOrdersForSecIdWithMinimumQty(P, other, minQty) :
                 other \in SecIds \ {securityId}, minQty \in 1..MaxQty}

\* C31: in every state of both caches, whatever earlier queries left in the
\* static vectors, the value getMatchingSizeForSecurity returns for a
\* security is the value it returns after one more addOrder of an order of
\* another security, after a cancelOrder of an order of another security,
\* after a cancelOrdersForUser of a user all of whose orders are of other
\* securities and after a cancelOrdersForSecIdWithMinimumQty for another
\* security; it is the value returned after a query for any security has run
\* first, and the value returned with the static vectors empty.
C31_OwnSecurityOnly ==
    \A securityId \in SecIds :
        LET ret == getMatchingSizeForSecurity(cache, tls, securityId).ret
            aliRet == Ali_getMatchingSizeForSecurity(pooled, aliTls, securityId).ret
        IN  /\ \A C \in OtherSecurityCalls(cache, securityId) :
                  getMatchingSizeForSecurity(C, tls, securityId).ret = ret
            /\ \A C \in Ali_OtherSecurityCalls(pooled, securityId) :
                  Ali_getMatchingSizeForSecurity(C, aliTls, securityId).ret = aliRet
            /\ \A earlier \in SecIds :
                  /\ getMatchingSizeForSecurity(cache,
                         getMatchingSizeForSecurity(cache, tls, earlier).scratch,
                         securityId).ret = ret
                  /\ Ali_getMatchingSizeForSecurity(pooled,
                         Ali_getMatchingSizeForSecurity(pooled, aliTls, earlier).scratch,
                         securityId).ret = aliRet
            /\ getMatchingSizeForSecurity(cache, EmptyScratch, securityId).ret = ret
            /\ Ali_getMatchingSizeForSecurity(pooled, EmptyScratch, securityId).ret = aliRet

\* An addOrder was the latest call and admitted an order of SecB, under the
\* id of its own, after a query had filled the static vectors; the orders of
\* SecA match a quantity above 0, and an order of SecB of the other side and
\* another company than a SecA order is resident.
C31_Witness ==
    /\ last = "addOrder"
    /\ SpareId \in DOMAIN cache.m_orders
    /\ SpareId \in DOMAIN pooled.m_orders
    /\ cache.m_orders[SpareId].securityId = "SecB"
    /\ pooled.m_orders[SpareId] = Newest(pooled)
    /\ tls.buyOrders # <<>> /\ tls.sellOrders # <<>>
    /\ aliTls.buyOrders # <<>> /\ aliTls.sellOrders # <<>>
    /\ getMatchingSizeForSecurity(cache, tls, "SecA").ret > 0
    /\ Ali_getMatchingSizeForSecurity(pooled, aliTls, "SecA").ret > 0
    /\ \E id \in DOMAIN cache.m_orders :
          /\ cache.m_orders[id].securityId = "SecA"
          /\ cache.m_orders[id].side # cache.m_orders[SpareId].side
          /\ cache.m_orders[id].company # cache.m_orders[SpareId].company

====
